---- MODULE Spec2Model ----
(***************************************************************************)
(* Model of the document store of doc-parser: the in-process vector index  *)
(* VectorDocumentStore (src/src/lib/vector-store.ts) with its snapshot     *)
(* file, query cache and embedding cache.                                  *)
(*                                                                         *)
(* Conventions                                                             *)
(*  - a JavaScript string is a sequence of one-character strings;          *)
(*  - a similarity is an integer number of ten-thousandths (Scale), so     *)
(*    0.6 is 6000 and the 0.01 tie window is 100; the vectors of EmbPool   *)
(*    have integer norms and the texts of the pools give boosts that are   *)
(*    whole numbers at this scale, so the arithmetic is exact;             *)
(*  - Date.now() is the variable now, counted in minutes.                  *)
(***************************************************************************)
EXTENDS Integers, Sequences, FiniteSets, TLC

VARIABLES documents, snapshot, queryCache, embeddingCache, now, last, ledger

vars == <<documents, snapshot, queryCache, embeddingCache, now, last, ledger>>

(***************************************************************************)
(* Strings                                                                 *)
(***************************************************************************)
UpperChars == <<"A","B","C","D","E","F","G","H","I","J","K","L","M",
                "N","O","P","Q","R","S","T","U","V","W","X","Y","Z">>

LowerChars == <<"a","b","c","d","e","f","g","h","i","j","k","l","m",
                "n","o","p","q","r","s","t","u","v","w","x","y","z">>

UpperSet == {UpperChars[i] : i \in 1..26}

LowerSet == {LowerChars[i] : i \in 1..26}

LowerOf == [c \in UpperSet |-> LowerChars[CHOOSE i \in 1..26 : UpperChars[i] = c]]

IsUpper(c) == c \in UpperSet

IsLower(c) == c \in LowerSet

IsLetter(c) == IsUpper(c) \/ IsLower(c)

IsSpace(c) == c = " "

LowerChar(c) == IF IsUpper(c) THEN LowerOf[c] ELSE c

ToLowerCase(s) == [i \in 1..Len(s) |-> LowerChar(s[i])]

\* String.prototype.includes
Includes(s, q) ==
  \E i \in 0..(Len(s) - Len(q)) : SubSeq(s, i + 1, i + Len(q)) = q

\* String.prototype.indexOf, 0-based, -1 when absent
IndexOf(s, q) ==
  IF Includes(s, q)
  THEN CHOOSE i \in 0..(Len(s) - Len(q)) :
         /\ SubSeq(s, i + 1, i + Len(q)) = q
         /\ \A j \in 0..(i - 1) : SubSeq(s, j + 1, j + Len(q)) # q
  ELSE -1

RECURSIVE TrimStart(_)
TrimStart(s) ==
  IF s # <<>> /\ IsSpace(Head(s)) THEN TrimStart(Tail(s)) ELSE s

RECURSIVE TrimEnd(_)
TrimEnd(s) ==
  IF s # <<>> /\ IsSpace(s[Len(s)]) THEN TrimEnd(SubSeq(s, 1, Len(s) - 1)) ELSE s

\* String.prototype.trim
Trim(s) == TrimEnd(TrimStart(s))

\* s.split(/\s+/): the pieces between maximal runs of whitespace; a leading
\* or trailing run leaves an empty piece, and "" splits into [""].
RECURSIVE SplitWsFrom(_, _, _)
SplitWsFrom(s, i, cur) ==
  IF i > Len(s) THEN <<cur>>
  ELSE IF IsSpace(s[i])
       THEN IF i < Len(s) /\ IsSpace(s[i + 1])
            THEN SplitWsFrom(s, i + 1, cur)
            ELSE <<cur>> \o SplitWsFrom(s, i + 1, <<>>)
       ELSE SplitWsFrom(s, i + 1, Append(cur, s[i]))

SplitWs(s) == SplitWsFrom(s, 1, <<>>)

\* s.split(" "): the pieces between single spaces
RECURSIVE SplitSpaceFrom(_, _, _)
SplitSpaceFrom(s, i, cur) ==
  IF i > Len(s) THEN <<cur>>
  ELSE IF s[i] = " "
       THEN <<cur>> \o SplitSpaceFrom(s, i + 1, <<>>)
       ELSE SplitSpaceFrom(s, i + 1, Append(cur, s[i]))

SplitSpace(s) == SplitSpaceFrom(s, 1, <<>>)

\* The only regular-expression metacharacter of the model's alphabet: a
\* query holding it makes new RegExp(query) throw a SyntaxError.
RegExpThrows(q) == \E i \in 1..Len(q) : q[i] = "("

\* (s.match(new RegExp(q, "g")) || []).length for a q of letters and spaces:
\* the non-overlapping occurrences found left to right; the empty pattern
\* matches once at every position.
RECURSIVE CountMatchesFrom(_, _, _)
CountMatchesFrom(s, q, i) ==
  IF i + Len(q) - 1 > Len(s) THEN 0
  ELSE IF SubSeq(s, i, i + Len(q) - 1) = q
       THEN 1 + CountMatchesFrom(s, q, i + Len(q))
       ELSE CountMatchesFrom(s, q, i + 1)

CountMatches(s, q) ==
  IF q = <<>> THEN Len(s) + 1 ELSE CountMatchesFrom(s, q, 1)

SeqToSet(s) == {s[i] : i \in 1..Len(s)}

Min(a, b) == IF a < b THEN a ELSE b

Max(a, b) == IF a > b THEN a ELSE b

Abs(x) == IF x < 0 THEN -x ELSE x

(***************************************************************************)
(* Values                                                                  *)
(***************************************************************************)
Scale == 10000

\* undefined for a string-valued property
Undefined == "undefined"

\* An optional number is <<>> (undefined) or <<n>>.
NoNumber == <<>>

\* A metadata timestamp or date that is absent is 0: the code reads both
\* through `|| 0` and truthiness tests, which 0 and undefined answer alike.
NoTimestamp == 0

NoDate == 0

(***************************************************************************)
(* Vector arithmetic                                                       *)
(***************************************************************************)
RECURSIVE SumSquares(_)
SumSquares(v) == IF v = <<>> THEN 0 ELSE Head(v) * Head(v) + SumSquares(Tail(v))

ISqrt(n) == CHOOSE r \in 0..n : r * r <= n /\ (r + 1) * (r + 1) > n

calculateNorm(vector) == ISqrt(SumSquares(vector))

RECURSIVE DotProduct(_, _)
DotProduct(a, b) ==
  IF a = <<>> THEN 0 ELSE Head(a) * Head(b) + DotProduct(Tail(a), Tail(b))

\* normA || calculateNorm(a): a stored norm of 0 is recomputed
cosineSimilarity(a, b, normA, normB) ==
  IF Len(a) # Len(b) THEN 0
  ELSE LET finalNormA == IF normA # 0 THEN normA ELSE calculateNorm(a)
           finalNormB == IF normB # 0 THEN normB ELSE calculateNorm(b)
       IN  IF finalNormA = 0 \/ finalNormB = 0 THEN 0
           ELSE (DotProduct(a, b) * Scale) \div (finalNormA * finalNormB)

(***************************************************************************)
(* Lexical boost, excerpt and floor                                        *)
(***************************************************************************)
RECURSIVE CountWordMatches(_, _)
CountWordMatches(queryWords, textWords) ==
  IF queryWords = <<>> THEN 0
  ELSE (IF Head(queryWords) \in SeqToSet(textWords) THEN 1 ELSE 0)
       + CountWordMatches(Tail(queryWords), textWords)

calculateExactMatchBoost(query, text) ==
  LET queryLower == ToLowerCase(query)
      textLower  == ToLowerCase(text)
      queryWords == SelectSeq(SplitWs(queryLower), LAMBDA w : Len(w) > 2)
      textWords  == SplitWs(textLower)
  IN  IF Includes(textLower, queryLower)
      THEN Min(Scale, CountMatches(textLower, queryLower) * 3000)
      ELSE IF Len(queryWords) > 0
           THEN (CountWordMatches(queryWords, textWords) * 5000) \div Len(queryWords)
           ELSE 0

\* new RegExp(queryLower, "g") is built only when the text includes the query
ExactMatchBoostThrows(query, text) ==
  /\ Includes(ToLowerCase(text), ToLowerCase(query))
  /\ RegExpThrows(ToLowerCase(query))

\* A pattern is a sequence of tokens: "lit" (one character, matched
\* case-insensitively), "ws" (\s+) and "cls" ([A-Z\s]* under the i flag: any
\* run of letters and whitespace).  PatternEnds is the set of positions at
\* which a match that starts at position i can end.
RECURSIVE PatternEnds(_, _, _, _)
PatternEnds(pattern, k, text, i) ==
  IF k > Len(pattern) THEN {i}
  ELSE LET tok == pattern[k]
       IN  IF tok.t = "lit"
           THEN IF i <= Len(text) /\ LowerChar(text[i]) = LowerChar(tok.c)
                THEN PatternEnds(pattern, k + 1, text, i + 1)
                ELSE {}
           ELSE UNION { PatternEnds(pattern, k + 1, text, j) :
                  j \in { j \in (IF tok.t = "ws" THEN i + 1 ELSE i)..(Len(text) + 1) :
                          \A m \in i..(j - 1) :
                            IF tok.t = "ws" THEN IsSpace(text[m])
                            ELSE IsLetter(text[m]) \/ IsSpace(text[m]) } }

Lit(c) == [t |-> "lit", c |-> c]

WsPlus == [t |-> "ws", c |-> " "]

ClassStar == [t |-> "cls", c |-> " "]

\* queryLower.replace(/\s+/g, "\\s+")
RECURSIVE WsFlexible(_, _)
WsFlexible(q, i) ==
  IF i > Len(q) THEN <<>>
  ELSE IF IsSpace(q[i])
       THEN IF i < Len(q) /\ IsSpace(q[i + 1]) THEN WsFlexible(q, i + 1)
            ELSE <<WsPlus>> \o WsFlexible(q, i + 1)
       ELSE <<Lit(q[i])>> \o WsFlexible(q, i + 1)

\* queryLower.split(" ").join("[A-Z\\s]*")
RECURSIVE JoinClass(_)
JoinClass(pieces) ==
  IF Len(pieces) = 1 THEN [i \in 1..Len(pieces[1]) |-> Lit(pieces[1][i])]
  ELSE [i \in 1..Len(pieces[1]) |-> Lit(pieces[1][i])] \o <<ClassStar>>
       \o JoinClass(Tail(pieces))

\* The texts of the model are single lines without ":" so ^ and $ are the
\* ends of the text; the second pattern (which requires a colon) never matches
\* and no later header line ends the section.
SectionHeaderMatches(queryLower, text) ==
  LET exact   == <<ClassStar>> \o WsFlexible(queryLower, 1) \o <<ClassStar>>
      partial == <<ClassStar>> \o JoinClass(SplitSpace(queryLower)) \o <<ClassStar>>
  IN  \/ (Len(text) + 1) \in PatternEnds(exact, 1, text, 1)
      \/ (Len(text) + 1) \in PatternEnds(partial, 1, text, 1)

extractRelevantSection(query, text) ==
  LET queryLower == ToLowerCase(query)
      textLower  == ToLowerCase(text)
      queryIndex == IndexOf(textLower, queryLower)
      contextStart == Max(0, queryIndex - 500)
      contextEnd   == Min(Len(text), queryIndex + Len(query) + 500)
  IN  IF SectionHeaderMatches(queryLower, text) /\ Len(Trim(text)) > 0
      THEN Trim(text)
      ELSE IF queryIndex # -1
           THEN Trim(SubSeq(text, contextStart + 1, contextEnd))
           ELSE text

\* the three section patterns are built from the query before any is tried
ExtractRelevantSectionThrows(query) == RegExpThrows(ToLowerCase(query))

calculateDynamicSimilarity(query) ==
  LET queryLength == Len(SplitWs(Trim(query)))
  IN  IF queryLength <= 2 THEN 6000
      ELSE IF queryLength <= 4 THEN 4000
      ELSE IF queryLength <= 8 THEN 3000
      ELSE 2000

\* minSimilarity || this.calculateDynamicSimilarity(query)
AdjustedMinSimilarity(minSimilarity, query) ==
  IF minSimilarity # NoNumber /\ minSimilarity[1] # 0
  THEN minSimilarity[1]
  ELSE calculateDynamicSimilarity(query)

(***************************************************************************)
(* Metadata filter                                                         *)
(*                                                                         *)
(* A filter is [given, documentType, keywords, dateRange]: given is FALSE  *)
(* for an undefined metadataFilter, documentType and keywords are         *)
(* sequences of strings (empty when the property is absent) and dateRange  *)
(* is <<>> or <<[start, end]>> with NoDate for an absent bound.  A date is *)
(* a day number.                                                           *)
(***************************************************************************)
NoFilter == [given |-> FALSE, documentType |-> <<>>, keywords |-> <<>>,
             dateRange |-> <<>>]

matchesMetadataFilter(doc, filter) ==
  LET structuredMeta == doc.structuredMetadata
      metadata       == doc.metadata
      rawType  == IF structuredMeta.documentType # <<>>
                  THEN structuredMeta.documentType ELSE metadata.documentType
      docType  == ToLowerCase(rawType)
      typeOk   ==
        \/ Len(filter.documentType) = 0
        \/ /\ docType # <<>>
           /\ \E i \in 1..Len(filter.documentType) :
                \/ ToLowerCase(filter.documentType[i]) = docType
                \/ Includes(docType, ToLowerCase(filter.documentType[i]))
      \* structuredMeta.keywords is an array, which is truthy even when empty
      docKeywords  == structuredMeta.keywords
      docTextLower == ToLowerCase(metadata.summary)
      keywordsOk ==
        \/ Len(filter.keywords) = 0
        \/ \E i \in 1..Len(filter.keywords) :
             LET keywordLower == ToLowerCase(filter.keywords[i])
             IN  \/ \E k \in 1..Len(docKeywords) :
                       Includes(ToLowerCase(docKeywords[k]), keywordLower)
                 \/ Includes(docTextLower, keywordLower)
      docDate == IF structuredMeta.date # NoDate
                 THEN structuredMeta.date ELSE metadata.date
      dateOk  ==
        \/ filter.dateRange = <<>>
        \/ docDate = NoDate
        \/ LET range == filter.dateRange[1]
           IN  /\ ~(range.start # NoDate /\ docDate < range.start)
               /\ ~(range.end # NoDate /\ docDate > range.end)
  IN  typeOk /\ keywordsOk /\ dateOk

(***************************************************************************)
(* Ranking                                                                 *)
(***************************************************************************)
\* metadata?.timestamp || 0
SortTimestamp(result) == result.metadata.timestamp

\* the comparator handed to results.sort
\* the comparator with the similarity branch ascending
CompareResults_Ascending(a, b) ==
  IF Abs(a.similarity - b.similarity) > 100
  THEN a.similarity - b.similarity
  ELSE SortTimestamp(b) - SortTimestamp(a)

CompareResults(a, b) ==
  IF Abs(a.similarity - b.similarity) > 100
  THEN b.similarity - a.similarity
  ELSE SortTimestamp(b) - SortTimestamp(a)

\* Array.prototype.sort as Node's engine runs it on an array of fewer than 64
\* elements: the leading run is found (and reversed when it is strictly
\* descending), then the remaining elements are inserted one by one by a
\* binary search.  The order of the result is the engine's when the comparator
\* is not a consistent order.
RECURSIVE RunLengthFrom(_, _, _)
RunLengthFrom(arr, idx, descending) ==
  IF idx > Len(arr) THEN idx - 1
  ELSE LET order == CompareResults(arr[idx], arr[idx - 1])
       IN  IF descending
           THEN IF order >= 0 THEN idx - 1 ELSE RunLengthFrom(arr, idx + 1, descending)
           ELSE IF order < 0 THEN idx - 1 ELSE RunLengthFrom(arr, idx + 1, descending)

Reverse(s) == [i \in 1..Len(s) |-> s[Len(s) + 1 - i]]

RECURSIVE BinarySearch(_, _, _, _)
BinarySearch(arr, pivot, left, right) ==
  IF left >= right THEN left
  ELSE LET mid == left + ((right - left) \div 2)
       IN  IF CompareResults(pivot, arr[mid + 1]) < 0
           THEN BinarySearch(arr, pivot, left, mid)
           ELSE BinarySearch(arr, pivot, mid + 1, right)

RECURSIVE BinaryInsertionSort(_, _)
BinaryInsertionSort(arr, start) ==
  IF start >= Len(arr) THEN arr
  ELSE LET pivot == arr[start + 1]
           left  == BinarySearch(arr, pivot, 0, start)
       IN  BinaryInsertionSort(
             SubSeq(arr, 1, left) \o <<pivot>> \o SubSeq(arr, left + 1, start)
               \o SubSeq(arr, start + 2, Len(arr)),
             start + 1)

SortResults(results) ==
  IF Len(results) < 2 THEN results
  ELSE LET descending == CompareResults(results[2], results[1]) < 0
           runLength  == RunLengthFrom(results, 3, descending)
           withRun    == IF descending
                         THEN Reverse(SubSeq(results, 1, runLength))
                                \o SubSeq(results, runLength + 1, Len(results))
                         ELSE results
       IN  BinaryInsertionSort(withRun, runLength)

\* result.metadata?.filename || "unknown"
\* a key that tells the chunks of one file apart
DedupKey_ById(result) == result.id

DedupKey(result) ==
  IF result.metadata.filename = Undefined \/ result.metadata.filename = ""
  THEN "unknown" ELSE result.metadata.filename

RECURSIVE DedupFrom(_, _, _, _, _)
DedupFrom(results, limit, i, documentMap, deduplicatedResults) ==
  IF i > Len(results) THEN deduplicatedResults
  ELSE IF DedupKey(results[i]) \notin documentMap
       THEN IF Len(deduplicatedResults) + 1 >= limit
            THEN Append(deduplicatedResults, results[i])
            ELSE DedupFrom(results, limit, i + 1,
                           documentMap \cup {DedupKey(results[i])},
                           Append(deduplicatedResults, results[i]))
       ELSE DedupFrom(results, limit, i + 1, documentMap, deduplicatedResults)

deduplicateByDocument(results, limit) == DedupFrom(results, limit, 1, {}, <<>>)

(***************************************************************************)
(* Caches and snapshot                                                     *)
(***************************************************************************)
\* 5 * 60 * 1000 ms, in minutes
cacheTimeout == 5

\* soft caps of the embedding cache and of the query cache
EmbeddingCacheCap == 50

QueryCacheCap == 100

\* limit: number = 10
DefaultLimit == 10

\* validity that still holds at an age of exactly cacheTimeout
isCacheValid_Inclusive(timestamp, at) == at - timestamp <= cacheTimeout

isCacheValid(timestamp, at) == at - timestamp < cacheTimeout

\* cleanCache and cleanEmbeddingCache: delete the entries that are not valid
\* a sweep that keeps only what was inserted at the time of the sweep
CleanExpired_KeepNewest(cache, at) ==
  [k \in {k \in DOMAIN cache : cache[k].timestamp = at} |-> cache[k]]

CleanExpired(cache, at) ==
  [k \in {k \in DOMAIN cache : isCacheValid(cache[k].timestamp, at)} |-> cache[k]]

cleanCache(cache, at) == CleanExpired(cache, at)

cleanEmbeddingCache(cache, at) == CleanExpired(cache, at)

\* a cache with key k set to entry v
CacheSet(cache, k, v) ==
  [x \in DOMAIN cache \cup {k} |-> IF x = k THEN v ELSE cache[x]]

EmptyCache == [k \in {} |-> 0]

\* `${query}_${limit}_${adjustedMinSimilarity}_${JSON.stringify(metadataFilter || {})}`:
\* the queries of the model hold neither "_" nor digits, so the string
\* determines the four parts; an undefined filter is serialized as {}.
CacheKey(query, limit, floor, filter) ==
  <<query, limit, floor,
    IF filter.given
    THEN <<filter.documentType, filter.keywords, filter.dateRange>>
    ELSE <<<<>>, <<>>, <<>>>> >>

\* The snapshot file: absent, cut short by a crash in the middle of a write,
\* or the JSON text that saveDocuments wrote.
MissingFile == [kind |-> "missing", documents |-> <<>>, savedAt |-> 0]

TruncatedFile == [kind |-> "truncated", documents |-> <<>>, savedAt |-> 0]

JsonFile(docs, at) == [kind |-> "json", documents |-> docs, savedAt |-> at]

\* loadDocuments: the file is read only when it exists, and a JSON.parse
\* failure is caught and leaves the collection empty.
JsonParseThrows(file) == file.kind = "truncated"

\* loadDocuments without its try/catch: the SyntaxError of JSON.parse leaves
\* the constructor
loadDocuments_NoCatch(file) ==
  IF file.kind = "missing" THEN [threw |-> FALSE, documents |-> <<>>]
  ELSE IF JsonParseThrows(file) THEN [threw |-> TRUE, documents |-> <<>>]
  ELSE [threw |-> FALSE, documents |-> file.documents]

loadDocuments(file) ==
  IF file.kind = "missing" THEN [threw |-> FALSE, documents |-> <<>>]
  ELSE IF JsonParseThrows(file)
       THEN \* catch: logs and returns []
            [threw |-> FALSE, documents |-> <<>>]
       ELSE [threw |-> FALSE, documents |-> file.documents]

\* a save that adds the records the file does not hold yet instead of
\* overwriting it
saveDocuments_Merging(file, docs, at, writeOk) ==
  IF writeOk
  THEN JsonFile(file.documents
                  \o SelectSeq(docs, LAMBDA d :
                        \A i \in 1..Len(file.documents) : file.documents[i] # d),
                at)
  ELSE file

\* saveDocuments: writeFileSync overwrites the file in full; a write error is
\* caught and logged, and the file keeps its old content.
saveDocuments(file, docs, at, writeOk) ==
  IF writeOk THEN JsonFile(docs, at) ELSE file

(***************************************************************************)
(* Bounds and input pools                                                  *)
(***************************************************************************)
\* calls made on one instance
MaxOps == 2

\* the clock stops here
MaxTime == 6

\* records an index holds at most
MaxDocs == 3

T_abc_def == <<"a","b","c"," ","d","e","f">>

T_abc == <<"a","b","c">>

T_xyz == <<"x","y","z">>

T_paren == <<"x","y","z"," ","(">>

T_email == <<"E","m","a","i","l">>

T_contract == <<"c","o","n","t","r","a","c","t">>

\* the vectors the embedding provider returns; all have norm 5
EmbPool == {<<3, 4>>, <<4, 3>>}

\* chunks as a caller hands them to add; the upload route stamps
\* metadata.timestamp itself, a direct caller need not
Chunk(id, text, filename, documentType) ==
  [id |-> id, text |-> text,
   metadata |-> [filename |-> filename, timestamp |-> NoTimestamp,
                 documentType |-> documentType, keywords |-> <<>>,
                 summary |-> <<>>, date |-> NoDate]]

ChunkF1a == Chunk("f1_chunk_0", T_abc_def, "f1", T_email)

ChunkF1b == Chunk("f1_chunk_1", T_abc, "f1", T_email)

ChunkF2 == Chunk("f2_chunk_0", T_xyz, "f2", T_contract)

ChunkNoName == Chunk("loose", T_abc, Undefined, <<>>)

BatchPool == {<<ChunkF1a>>, <<ChunkF2>>, <<ChunkNoName>>, <<ChunkF1b, ChunkF1a>>}

EmailFilter == [given |-> TRUE, documentType |-> <<T_email>>, keywords |-> <<>>,
                dateRange |-> <<>>]

\* minutes by which the clock moves between two calls
TickPool == {4, 5}

\* The texts and queries of the pools, and the string functions of search
\* tabulated over them (each table entry is the function's value).
KnownTexts == {T_abc_def, T_abc, T_xyz}

KnownQueries == {T_abc_def, T_abc, T_paren}

BoostOf == [q \in KnownQueries, t \in KnownTexts |-> calculateExactMatchBoost(q, t)]

BoostThrowsOf == [q \in KnownQueries, t \in KnownTexts |-> ExactMatchBoostThrows(q, t)]

ExcerptOf ==
  [q \in KnownQueries, t \in KnownTexts |->
     IF ExtractRelevantSectionThrows(q) THEN <<>> ELSE extractRelevantSection(q, t)]

(***************************************************************************)
(* Scoring loop of search                                                  *)
(***************************************************************************)
\* One pass over the records in index order.  The value is
\* [threw, results]: threw is TRUE when building a regular expression from
\* the query raised, which ends the loop.  recordTimestamp is a history field:
\* the timestamp add stamped on the record the result was made from (the code
\* does not copy it into the result).
RECURSIVE ScoreFrom(_, _, _, _, _, _, _)
ScoreFrom(docs, i, query, queryEmbedding, queryNorm, floor, filter) ==
  IF i > Len(docs) THEN [threw |-> FALSE, results |-> <<>>]
  ELSE LET doc == docs[i]
           rest == ScoreFrom(docs, i + 1, query, queryEmbedding, queryNorm,
                             floor, filter)
           vectorSimilarity ==
             cosineSimilarity(queryEmbedding, doc.embedding, queryNorm, doc.norm)
           exactMatchBoost == BoostOf[query, doc.text]
           finalSimilarity ==
             Min(Scale, (9 * vectorSimilarity + exactMatchBoost) \div 10)
       IN  IF filter.given /\ ~matchesMetadataFilter(doc, filter) THEN rest
           ELSE IF BoostThrowsOf[query, doc.text]
                THEN [threw |-> TRUE, results |-> <<>>]
           ELSE IF finalSimilarity > floor
                THEN IF ExtractRelevantSectionThrows(query)
                     THEN [threw |-> TRUE, results |-> <<>>]
                     ELSE IF rest.threw THEN rest
                     ELSE [threw |-> FALSE,
                           results |->
                             <<[id |-> doc.id,
                                text |-> ExcerptOf[query, doc.text],
                                metadata |-> doc.metadata,
                                similarity |-> finalSimilarity,
                                distance |-> Scale - finalSimilarity,
                                recordTimestamp |-> doc.timestamp]>>
                             \o rest.results]
           ELSE rest

ScoreDocuments(docs, query, queryEmbedding, floor, filter) ==
  ScoreFrom(docs, 1, query, queryEmbedding, calculateNorm(queryEmbedding),
            floor, filter)

(***************************************************************************)
(* State                                                                   *)
(***************************************************************************)
NoStats == [totalDocuments |-> 0, totalChunks |-> 0, avgChunkSize |-> 0,
            indexSize |-> 0]

NoSweep == [ran |-> FALSE, size |-> 0, at |-> 0, before |-> EmptyCache,
            after |-> EmptyCache]

\* what the last call was and what it returned
NoLast == [op |-> "none", query |-> <<>>, limitArg |-> NoNumber, limit |-> 0,
           minSimilarity |-> NoNumber,
           filter |-> NoFilter, floor |-> 0, hadEntry |-> FALSE,
           entryTimestamp |-> 0, entryResults |-> <<>>, checkedAt |-> 0,
           cacheHit |-> FALSE, cached |-> FALSE,
           providerCalled |-> FALSE, caught |-> FALSE, threw |-> FALSE,
           error |-> "none", candidates |-> <<>>, ranked |-> <<>>,
           results |-> <<>>, stats |-> NoStats, file |-> "none",
           embSweep |-> NoSweep, querySweep |-> NoSweep, chunks |-> <<>>]

\* history: calls made, and the chunks and filenames added since the last
\* clear (a record loaded from the snapshot was added before the instance
\* was built)
Filenames(docs) == {docs[i].metadata.filename : i \in 1..Len(docs)}

NewLedger(ops, docs) == [ops |-> ops, chunks |-> Len(docs), files |-> Filenames(docs)]

StampMetadata(chunks, stamp) ==
  [i \in 1..Len(chunks) |->
     [chunks[i] EXCEPT !.metadata.timestamp = stamp]]

\* the records add builds from a batch of chunks and their embeddings
MakeVectorDocs(chunks, embeddings, currentTimestamp) ==
  [i \in 1..Len(chunks) |->
     [id |-> chunks[i].id,
      text |-> chunks[i].text,
      metadata |-> chunks[i].metadata,
      embedding |-> embeddings[i],
      norm |-> calculateNorm(embeddings[i]),
      timestamp |-> currentTimestamp,
      structuredMetadata |->
        [documentType |-> chunks[i].metadata.documentType,
         keywords |-> chunks[i].metadata.keywords,
         date |-> chunks[i].metadata.date]]]

\* the snapshots a fresh process can find: none, a cut one, or one written by
\* an earlier process
InitFiles ==
  {MissingFile, TruncatedFile, JsonFile(<<>>, 0)}
  \cup { JsonFile(MakeVectorDocs(b, [i \in 1..Len(b) |-> e], 0), 0) :
           b \in BatchPool, e \in EmbPool }

\* the state of an instance built over file at time t
Constructed(file, t) ==
  /\ snapshot = file
  /\ documents = loadDocuments(file).documents
  /\ queryCache = EmptyCache
  /\ embeddingCache = EmptyCache
  /\ now = t
  /\ last = [NoLast EXCEPT !.op = "construct", !.file = file.kind,
                           !.threw = loadDocuments(file).threw]
  /\ ledger = NewLedger(0, documents)

Init == \E file \in InitFiles : Constructed(file, 1)

(***************************************************************************)
(* Operations of VectorDocumentStore                                       *)
(*                                                                         *)
(* The clock counts minutes, so an awaited provider call ends in the       *)
(* minute in which it began.                                               *)
(***************************************************************************)
AnEmbedding == CHOOSE e \in EmbPool : TRUE

\* an add that pushes each record as soon as it is built: with one vector
\* short, the records before the missing one are in the collection when
\* calculateNorm throws
Add_PushingOneByOne(chunks, stamp, embeddings, outcome, writeOk) ==
  LET stamped == StampMetadata(chunks, stamp)
      currentTimestamp == now
      vectorDocs == MakeVectorDocs(stamped, embeddings, currentTimestamp)
  IN  /\ Len(documents) + Len(chunks) <= MaxDocs
      /\ IF outcome = "ok"
         THEN /\ documents' = documents \o vectorDocs
              /\ snapshot' = saveDocuments(snapshot, documents', currentTimestamp, writeOk)
              /\ last' = [NoLast EXCEPT !.op = "add", !.providerCalled = TRUE,
                                        !.chunks = stamped]
              /\ ledger' = [ops |-> ledger.ops + 1,
                            chunks |-> ledger.chunks + Len(chunks),
                            files |-> ledger.files \cup Filenames(stamped)]
         ELSE /\ documents' = IF outcome = "short"
                              THEN documents \o SubSeq(vectorDocs, 1, Len(chunks) - 1)
                              ELSE documents
              /\ UNCHANGED snapshot
              /\ last' = [NoLast EXCEPT !.op = "add", !.providerCalled = TRUE,
                                        !.threw = TRUE, !.error = outcome,
                                        !.chunks = stamped]
              /\ ledger' = [ledger EXCEPT !.ops = @ + 1]
      /\ UNCHANGED <<queryCache, embeddingCache, now>>

\* add(chunks): embedDocuments rejects (outcome "fail"), returns one vector
\* short (outcome "short", which makes calculateNorm(undefined) throw inside
\* the map) or returns one vector per chunk.  Nothing is assigned before the
\* push, so a throw changes nothing.
Add(chunks, stamp, embeddings, outcome, writeOk) ==
  LET stamped == StampMetadata(chunks, stamp)
      currentTimestamp == now
      vectorDocs == MakeVectorDocs(stamped, embeddings, currentTimestamp)
  IN  /\ Len(documents) + Len(chunks) <= MaxDocs
      /\ IF outcome = "ok"
         THEN /\ documents' = documents \o vectorDocs
              /\ snapshot' = saveDocuments(snapshot, documents', currentTimestamp, writeOk)
              /\ last' = [NoLast EXCEPT !.op = "add", !.providerCalled = TRUE,
                                        !.chunks = stamped]
              /\ ledger' = [ops |-> ledger.ops + 1,
                            chunks |-> ledger.chunks + Len(chunks),
                            files |-> ledger.files \cup Filenames(stamped)]
         ELSE /\ UNCHANGED <<documents, snapshot>>
              /\ last' = [NoLast EXCEPT !.op = "add", !.providerCalled = TRUE,
                                        !.threw = TRUE, !.error = outcome,
                                        !.chunks = stamped]
              /\ ledger' = [ledger EXCEPT !.ops = @ + 1]
      /\ UNCHANGED <<queryCache, embeddingCache, now>>

AddAction ==
  \E chunks \in BatchPool, stamp \in {NoTimestamp, now},
     outcome \in {"ok", "fail", "short"}, writeOk \in BOOLEAN :
    \E embeddings \in [1..Len(chunks) -> EmbPool] :
      /\ ledger.ops < MaxOps
      /\ outcome # "ok" =>
           /\ writeOk
           /\ stamp = NoTimestamp
           /\ \A i \in 1..Len(chunks) : embeddings[i] = AnEmbedding
      /\ Add(chunks, stamp, embeddings, outcome, writeOk)

\* a catch block that throws the error again
SearchFailed_Rethrow(call, error) ==
  [call EXCEPT !.error = error, !.caught = TRUE, !.threw = TRUE]

\* the catch block of search: the error is logged and [] is returned
SearchFailed(call, error) ==
  [call EXCEPT !.error = error, !.caught = TRUE, !.results = <<>>]

\* a search that ends by saving the collection
SearchFrame_Resaving ==
  /\ snapshot' = saveDocuments(snapshot, documents, now, TRUE)
  /\ UNCHANGED <<documents, now>>

\* search assigns neither this.documents nor a field of a record and never
\* calls saveDocuments
SearchFrame == UNCHANGED <<documents, snapshot, now>>

\* search(query, limit, minSimilarity, metadataFilter): embedQuery is awaited
\* only when neither cache answers; it rejects (outcome "fail") or returns
\* embedding.
Search(query, limitArg, minSimilarity, metadataFilter, embedding, outcome) ==
  LET limit == IF limitArg = NoNumber THEN DefaultLimit ELSE limitArg[1]
      floor == AdjustedMinSimilarity(minSimilarity, query)
      empty == Len(documents) = 0
      cacheKey == CacheKey(query, limit, floor, metadataFilter)
      hadEntry == cacheKey \in DOMAIN queryCache
      hit == hadEntry /\ isCacheValid(queryCache[cacheKey].timestamp, now)
      embHit == /\ query \in DOMAIN embeddingCache
                /\ isCacheValid(embeddingCache[query].timestamp, now)
      providerCalled == ~empty /\ ~hit /\ ~embHit
      queryEmbedding == IF embHit THEN embeddingCache[query].embedding ELSE embedding
      embSet == CacheSet(embeddingCache, query,
                         [embedding |-> embedding, timestamp |-> now])
      embSwept == Cardinality(DOMAIN embSet) > EmbeddingCacheCap
      embAfter == IF embSwept THEN cleanEmbeddingCache(embSet, now) ELSE embSet
      embSweep == IF providerCalled /\ embSwept
                  THEN [ran |-> TRUE, size |-> Cardinality(DOMAIN embSet),
                        at |-> now, before |-> embSet, after |-> embAfter]
                  ELSE NoSweep
      scored == ScoreDocuments(documents, query, queryEmbedding, floor, metadataFilter)
      sortedResults == SortResults(scored.results)
      deduplicatedResults == deduplicateByDocument(sortedResults, limit)
      querySet == CacheSet(queryCache, cacheKey,
                           [results |-> deduplicatedResults, timestamp |-> now])
      querySwept == Cardinality(DOMAIN querySet) > QueryCacheCap
      queryAfter == IF querySwept THEN cleanCache(querySet, now) ELSE querySet
      querySweep == IF querySwept
                    THEN [ran |-> TRUE, size |-> Cardinality(DOMAIN querySet),
                          at |-> now, before |-> querySet, after |-> queryAfter]
                    ELSE NoSweep
      call == [NoLast EXCEPT !.op = "search", !.query = query,
                             !.limitArg = limitArg, !.limit = limit,
                             !.minSimilarity = minSimilarity,
                             !.filter = metadataFilter, !.floor = floor,
                             !.checkedAt = now]
      looked == [call EXCEPT !.hadEntry = hadEntry,
                             !.entryTimestamp =
                                IF hadEntry THEN queryCache[cacheKey].timestamp ELSE 0,
                             !.entryResults =
                                IF hadEntry THEN queryCache[cacheKey].results ELSE <<>>]
  IN  /\ ledger' = [ledger EXCEPT !.ops = @ + 1]
      /\ SearchFrame
      /\ IF empty
         THEN /\ last' = call
              /\ UNCHANGED <<queryCache, embeddingCache>>
         ELSE IF hit
         THEN /\ last' = [looked EXCEPT !.cacheHit = TRUE,
                                        !.results = queryCache[cacheKey].results]
              /\ UNCHANGED <<queryCache, embeddingCache>>
         ELSE IF providerCalled /\ outcome = "fail"
         THEN /\ last' = SearchFailed([looked EXCEPT !.providerCalled = TRUE],
                                      "embedding")
              /\ UNCHANGED <<queryCache, embeddingCache>>
         ELSE /\ embeddingCache' = IF providerCalled THEN embAfter ELSE embeddingCache
              /\ IF scored.threw
                 THEN /\ last' = SearchFailed(
                                   [looked EXCEPT !.providerCalled = providerCalled,
                                                  !.embSweep = embSweep],
                                   "scoring")
                      /\ UNCHANGED queryCache
                 ELSE /\ queryCache' = queryAfter
                      /\ last' = [looked EXCEPT
                                    !.providerCalled = providerCalled,
                                    !.cached = TRUE,
                                    !.candidates = scored.results,
                                    !.ranked = sortedResults,
                                    !.results = deduplicatedResults,
                                    !.embSweep = embSweep,
                                    !.querySweep = querySweep]

\* a search with its arguments drawn from the given pools
SearchFrom(queries, limits, minSimilarities, filters) ==
  \E query \in queries, limitArg \in limits, minSimilarity \in minSimilarities,
     metadataFilter \in filters, embedding \in EmbPool, outcome \in {"ok", "fail"} :
    Search(query, limitArg, minSimilarity, metadataFilter, embedding, outcome)

SearchAction ==
  /\ ledger.ops < MaxOps
  /\ SearchFrom({T_abc_def, T_paren}, {NoNumber, <<1>>}, {NoNumber}, {NoFilter})

RECURSIVE SumTextLength(_)
SumTextLength(docs) ==
  IF docs = <<>> THEN 0 ELSE Len(Head(docs).text) + SumTextLength(Tail(docs))

\* Math.round of the non-negative quotient a / b
RoundDiv(a, b) == (2 * a + b) \div (2 * b)

\* statistics that count every chunk as a document
getStats_CountingChunks(docs) ==
  LET totalChunks == Len(docs)
  IN  [totalDocuments |-> Len(docs),
       totalChunks |-> totalChunks,
       avgChunkSize |-> IF totalChunks > 0
                        THEN RoundDiv(SumTextLength(docs), totalChunks) ELSE 0,
       indexSize |-> Len(docs)]

getStats(docs) ==
  LET totalChunks == Len(docs)
  IN  [totalDocuments |-> Cardinality(Filenames(docs)),
       totalChunks |-> totalChunks,
       avgChunkSize |-> IF totalChunks > 0
                        THEN RoundDiv(SumTextLength(docs), totalChunks) ELSE 0,
       indexSize |-> Len(docs)]

\* getStats() reads only
GetStats ==
  /\ ledger.ops < MaxOps
  /\ last' = [NoLast EXCEPT !.op = "getStats", !.stats = getStats(documents)]
  /\ ledger' = [ledger EXCEPT !.ops = @ + 1]
  /\ UNCHANGED <<documents, snapshot, queryCache, embeddingCache, now>>

\* clear(): the query cache is emptied, the embedding cache is not
\* a clear that forgets the query cache
Clear_KeepingCache(writeOk) ==
  /\ documents' = <<>>
  /\ snapshot' = saveDocuments(snapshot, documents', now, writeOk)
  /\ last' = [NoLast EXCEPT !.op = "clear"]
  /\ ledger' = NewLedger(ledger.ops + 1, <<>>)
  /\ UNCHANGED <<queryCache, embeddingCache, now>>

Clear(writeOk) ==
  /\ documents' = <<>>
  /\ queryCache' = EmptyCache
  /\ snapshot' = saveDocuments(snapshot, documents', now, writeOk)
  /\ last' = [NoLast EXCEPT !.op = "clear"]
  /\ ledger' = NewLedger(ledger.ops + 1, <<>>)
  /\ UNCHANGED <<embeddingCache, now>>

ClearAction == ledger.ops < MaxOps /\ \E writeOk \in BOOLEAN : Clear(writeOk)

\* What a starting process finds on disk: the file as it was last written,
\* no file (the clear-data route unlinks it) or a file cut short by a crash in
\* the middle of a write.
FoundFile(file, fate) ==
  IF fate = "unlinked" THEN MissingFile
  ELSE IF fate = "cut" /\ file.kind = "json" THEN TruncatedFile
  ELSE file

\* new VectorDocumentStore(apiKey): every request of the application builds
\* its own instance, which starts from the snapshot with empty caches.
Construct(fate) ==
  /\ ledger.ops < MaxOps
  /\ snapshot' = FoundFile(snapshot, fate)
  /\ documents' = loadDocuments(snapshot').documents
  /\ queryCache' = EmptyCache
  /\ embeddingCache' = EmptyCache
  /\ last' = [NoLast EXCEPT !.op = "construct", !.file = snapshot'.kind,
                            !.threw = loadDocuments(snapshot').threw]
  /\ ledger' = NewLedger(ledger.ops + 1, documents')
  /\ UNCHANGED now

ConstructAction == \E fate \in {"intact", "unlinked", "cut"} : Construct(fate)

Tick ==
  \E d \in TickPool :
    /\ ledger.ops < MaxOps
    /\ now + d <= MaxTime
    /\ now' = now + d
    /\ UNCHANGED <<documents, snapshot, queryCache, embeddingCache, last, ledger>>

Next ==
  \/ AddAction
  \/ SearchAction
  \/ GetStats
  \/ ClearAction
  \/ ConstructAction
  \/ Tick

Spec == Init /\ [][Next]_vars

(***************************************************************************)
(* Ranking specification: one search, and its repetition, over every index *)
(* of at most MaxDocs records that earlier uploads can have left in the    *)
(* snapshot.                                                               *)
(***************************************************************************)
\* The indexes that uploads at the minutes t, t + 1, ... append to docs; with
\* stamped, the caller put the upload minute into metadata.timestamp.
RECURSIVE IndexesFrom(_, _, _)
IndexesFrom(docs, t, stamped) ==
  {docs} \cup
  UNION { UNION { IndexesFrom(
                    docs \o MakeVectorDocs(
                              StampMetadata(b, IF stamped THEN t ELSE NoTimestamp),
                              e, t),
                    t + 1, stamped) :
                  e \in [1..Len(b) -> EmbPool] } :
          b \in {b \in BatchPool : Len(docs) + Len(b) <= MaxDocs} }

RankIndexes == UNION { IndexesFrom(<<>>, 1, stamped) : stamped \in BOOLEAN }

RankInit ==
  \E docs \in RankIndexes :
    Constructed(JsonFile(docs, Len(docs)), Len(docs) + 1)

RankSearch ==
  /\ ledger.ops = 0
  /\ SearchFrom({T_abc_def}, {NoNumber, <<0>>, <<1>>},
                {NoNumber, <<0>>, <<8900>>}, {NoFilter, EmailFilter})

\* the caller repeats its search at once
RepeatSearch ==
  /\ ledger.ops = 1
  /\ last.op = "search"
  /\ \E embedding \in EmbPool, outcome \in {"ok", "fail"} :
       Search(last.query, last.limitArg, last.minSimilarity, last.filter,
              embedding, outcome)

RankNext == RankSearch \/ RepeatSearch

SpecRank == RankInit /\ [][RankNext]_vars

(***************************************************************************)
(* Full caches: an instance whose caches are at their caps.  Its history   *)
(* is 49 searches with other queries, a clear, an add of two chunks and    *)
(* 100 searches with one query and the limits 1..100, all within minutes   *)
(* 1 and 2.                                                                *)
(***************************************************************************)
SweepDocs == MakeVectorDocs(<<ChunkF1a, ChunkF2>>, <<AnEmbedding, AnEmbedding>>, 1)

\* the i-th of the other queries
FillerQuery(i) == [j \in 1..i |-> "q"]

SweepFloor == calculateDynamicSimilarity(T_abc_def)

SweepResults(limit) ==
  deduplicateByDocument(
    SortResults(ScoreDocuments(SweepDocs, T_abc_def, AnEmbedding, SweepFloor,
                               NoFilter).results),
    limit)

\* the entries of the limits 1..old were cached in minute 1, the others in
\* minute 2
SeededQueryCache(old) ==
  [k \in {CacheKey(T_abc_def, l, SweepFloor, NoFilter) : l \in 1..QueryCacheCap} |->
     [results |-> SweepResults(k[2]),
      timestamp |-> IF k[2] <= old THEN 1 ELSE 2]]

\* the first old of the other queries were embedded in minute 1, the others
\* in minute 2; the query of the 100 searches was embedded in minute own
SeededEmbeddingCache(old, own) ==
  [q \in {FillerQuery(i) : i \in 1..(EmbeddingCacheCap - 1)} \cup {T_abc_def} |->
     [embedding |-> AnEmbedding,
      timestamp |-> IF q = T_abc_def THEN own
                    ELSE IF Len(q) <= old THEN 1 ELSE 2]]

SweepSeeds ==
  {[queries |-> q, embeddings |-> EmbeddingCacheCap - 1, own |-> 1] : q \in {1, 60, 100}}
  \cup {[queries |-> 0, embeddings |-> e, own |-> 2] : e \in {0, 1, 30, 49}}

SweepInit ==
  \E seed \in SweepSeeds :
    /\ documents = SweepDocs
    /\ snapshot = JsonFile(SweepDocs, 1)
    /\ queryCache = SeededQueryCache(seed.queries)
    /\ embeddingCache = SeededEmbeddingCache(seed.embeddings, seed.own)
    /\ now = 2
    /\ last = NoLast
    /\ ledger = NewLedger(0, SweepDocs)

SweepSearch ==
  /\ ledger.ops < MaxOps
  /\ SearchFrom({T_abc_def, T_abc}, {<<1>>, <<101>>, <<102>>}, {NoNumber}, {NoFilter})

SweepNext == SweepSearch \/ Tick

SpecSweep == SweepInit /\ [][SweepNext]_vars

(***************************************************************************)
(* Properties of the ranking (SpecRank)                                    *)
(***************************************************************************)
Searched == last.op = "search"

\* the search computed its list (no cache hit, no error, index not empty)
Computed == Searched /\ last.cached

NonIncreasing(results) ==
  \A i \in 1..(Len(results) - 1) :
    results[i].similarity >= results[i + 1].similarity

\* two similarities that differ, by at most 0.01
NearTie(a, b) ==
  /\ a.similarity # b.similarity
  /\ Abs(a.similarity - b.similarity) <= 100

NoNearTies(results) ==
  \A i, j \in 1..Len(results) : ~NearTie(results[i], results[j])

C2_TiesNewestRecordFirst ==
  Searched =>
    \A i \in 1..(Len(last.results) - 1) :
      Abs(last.results[i].similarity - last.results[i + 1].similarity) <= 100
        => last.results[i].recordTimestamp >= last.results[i + 1].recordTimestamp

FirstWithKey(ranked, key) ==
  ranked[CHOOSE i \in 1..Len(ranked) :
           /\ DedupKey(ranked[i]) = key
           /\ \A j \in 1..(i - 1) : DedupKey(ranked[j]) # key]

\* C3: no two results of a search, computed or served from the query cache,
\* have the same metadata.filename, and a computed result is the first of its
\* filename in ranking order.
C3_OnePerFilename ==
  Searched =>
    /\ \A i, j \in 1..Len(last.results) :
         i # j => last.results[i].metadata.filename # last.results[j].metadata.filename
    /\ last.cached =>
         \A i \in 1..Len(last.results) :
           last.results[i] = FirstWithKey(last.ranked, DedupKey(last.results[i]))

\* a list served from the cache whose computation dropped a second chunk of a
\* file that ranked below the first
C3_Witness ==
  /\ Searched
  /\ last.cacheHit
  /\ Len(last.results) >= 2
  /\ \E k \in DOMAIN queryCache :
       /\ queryCache[k].results = last.results
       /\ Len(documents) > Len(last.results)
       /\ \E i, j \in 1..Len(documents) :
            i # j /\ documents[i].metadata.filename = documents[j].metadata.filename

\* C4: for every limit >= 0 a search returns at most limit results.
C4_AtMostLimit ==
  (Searched /\ last.limit >= 0) => Len(last.results) <= last.limit

WordCount(query) ==
  Cardinality({i \in 1..Len(query) :
                 /\ ~IsSpace(query[i])
                 /\ (i = 1 \/ IsSpace(query[i - 1]))})

\* C6: the floor of a search is the minSimilarity the caller supplied, 0
\* included, and without one 0.6, 0.4, 0.3 or 0.2 for a query of at most 2, at
\* most 4, at most 8 or more words.
C6_FloorIsCallerValueOrDefault ==
  Searched =>
    last.floor =
      IF last.minSimilarity # NoNumber THEN last.minSimilarity[1]
      ELSE IF WordCount(last.query) <= 2 THEN 6000
      ELSE IF WordCount(last.query) <= 4 THEN 4000
      ELSE IF WordCount(last.query) <= 8 THEN 3000
      ELSE 2000

(***************************************************************************)
(* Properties of one instance (Spec)                                       *)
(***************************************************************************)
LastKey == CacheKey(last.query, last.limit, last.floor, last.filter)

\* C5: when the embedding provider fails or scoring raises during a search on
\* a non-empty index, the search returns [] without throwing, the query cache
\* is as before the call and so are the records and the snapshot.
C5_FailedSearchReturnsEmpty ==
  [][(last'.op = "search" /\ last'.error # "none" /\ ledger'.ops # ledger.ops)
       => /\ Len(documents) > 0
          /\ ~last'.threw
          /\ last'.results = <<>>
          /\ queryCache' = queryCache
          /\ documents' = documents
          /\ snapshot' = snapshot]_vars

\* a search over a non-empty index whose scoring raised after the provider
\* had answered
C5_Witness ==
  /\ Searched
  /\ last.error = "scoring"
  /\ last.providerCalled
  /\ Len(documents) > 0

\* C7: a search that finds an entry under its key returns the entry's list,
\* without calling the provider, exactly when the entry is less than 5 minutes
\* old; otherwise it computes the list again and, unless that fails, caches it
\* under the key with the current time.
C7_CacheHitIffYoungerThanTTL ==
  (Searched /\ last.hadEntry) =>
    /\ last.cacheHit <=> (last.checkedAt - last.entryTimestamp < 5)
    /\ last.cacheHit => (last.results = last.entryResults /\ ~last.providerCalled)
    /\ (~last.cacheHit /\ last.error = "none") =>
         /\ last.cached
         /\ LastKey \in DOMAIN queryCache
         /\ queryCache[LastKey].timestamp = last.checkedAt
         /\ queryCache[LastKey].results = last.results

\* a search that found an entry exactly 5 minutes old, ignored it and cached
\* its own list
C7_Witness ==
  /\ Searched
  /\ last.hadEntry
  /\ last.checkedAt - last.entryTimestamp = 5
  /\ ~last.cacheHit
  /\ last.cached

C10_BadSnapshotLoadsEmpty ==
  (last.op = "construct" /\ last.file \in {"missing", "truncated"}) =>
    /\ ~last.threw
    /\ documents = <<>>

\* an instance built over a snapshot that a crash cut short
C10_Witness ==
  /\ last.op = "construct"
  /\ last.file = "truncated"
  /\ ledger.ops = 1
  /\ snapshot = TruncatedFile

(***************************************************************************)
(* Properties of the sweeps (SpecSweep)                                    *)
(***************************************************************************)
\* the entries of cache that are less than 5 minutes old at time at
YoungerThanTTL(cache, at) ==
  [k \in {k \in DOMAIN cache : at - cache[k].timestamp < 5} |-> cache[k]]

\* C8: a search changes a cache only by inserting its own entry and, when the
\* insertion leaves more than 100 entries in the query cache (50 in the
\* embedding cache), by deleting exactly the entries that are at least 5
\* minutes old; at or below the cap nothing is deleted.
C8_SweepAboveCapDeletesExpired ==
  [][(last'.op = "search" /\ ledger'.ops # ledger.ops) =>
       LET inserted ==
             IF last'.cached
             THEN CacheSet(queryCache, LastKey',
                           [results |-> last'.results, timestamp |-> now])
             ELSE queryCache
           embedded ==
             IF last'.providerCalled /\ last'.error # "embedding"
                /\ last'.query \in DOMAIN embeddingCache'
             THEN CacheSet(embeddingCache, last'.query,
                           [embedding |-> embeddingCache'[last'.query].embedding,
                            timestamp |-> now])
             ELSE embeddingCache
           queryInsertion == last'.cached
           embeddingInsertion == last'.providerCalled /\ last'.error # "embedding"
       IN  /\ embeddingInsertion => last'.query \in DOMAIN embeddingCache'
           /\ queryCache' =
                IF queryInsertion /\ Cardinality(DOMAIN inserted) > 100
                THEN YoungerThanTTL(inserted, now) ELSE inserted
           /\ embeddingCache' =
                IF embeddingInsertion /\ Cardinality(DOMAIN embedded) > 50
                THEN YoungerThanTTL(embedded, now) ELSE embedded
           /\ last'.querySweep.ran <=>
                (queryInsertion /\ Cardinality(DOMAIN inserted) > 100)
           /\ last'.embSweep.ran <=>
                (embeddingInsertion /\ Cardinality(DOMAIN embedded) > 50)]_vars

\* a search whose sweep of the query cache deleted an expired entry, kept the
\* younger ones and left the cache above its cap, and whose sweep of the
\* embedding cache deleted the expired entries
C8_Witness ==
  /\ Searched
  /\ last.querySweep.ran
  /\ DOMAIN last.querySweep.after # DOMAIN last.querySweep.before
  /\ queryCache = last.querySweep.after
  /\ Cardinality(DOMAIN queryCache) > 100
  /\ \E k \in DOMAIN queryCache : queryCache[k].timestamp < now
  /\ last.embSweep.ran
  /\ DOMAIN last.embSweep.after # DOMAIN last.embSweep.before

(***************************************************************************)
(* Vectors of any length (SpecDim).  An entry of a model vector stands for *)
(* a block of 1536 components with that Euclidean length, so a vector of   *)
(* two entries has the 3072 components of text-embedding-3-large.          *)
(***************************************************************************)
dimension == 3072

BlockSize == 1536

\* embedding.length
VectorLength(v) == BlockSize * Len(v)

\* what a provider can answer: vectors of the model's dimension, and vectors
\* of another model or of a request with another "dimensions" option
DimPool == EmbPool \cup {<<5>>, <<0, 3, 4>>}

\* add stores what embedDocuments returned
DimAdd ==
  \E chunks \in BatchPool, writeOk \in BOOLEAN :
    \E embeddings \in [1..Len(chunks) -> DimPool] :
      /\ ledger.ops < MaxOps
      /\ Add(chunks, now, embeddings, "ok", writeOk)

DimNext == DimAdd \/ ConstructAction \/ Tick

SpecDim == Init /\ [][DimNext]_vars

\* C11: every indexed record has an embedding of the store's dimension and a
\* stored norm equal to the L2 norm of that embedding.
C11_EmbeddingsHaveStoreDimension ==
  \A i \in 1..Len(documents) :
    /\ VectorLength(documents[i].embedding) = dimension
    /\ documents[i].norm = calculateNorm(documents[i].embedding)

(***************************************************************************)
(* Further properties of one instance (Spec)                               *)
(***************************************************************************)
\* C12: a search, whether it hits the cache, misses it or fails, leaves the
\* sequence of records and the snapshot as they were before the call.
C12_SearchKeepsRecordsAndSnapshot ==
  [][(last'.op = "search" /\ ledger'.ops # ledger.ops) =>
       /\ documents' = documents
       /\ snapshot' = snapshot]_vars

\* a search over a non-empty index that called the provider and wrote both
\* caches, on an instance whose snapshot holds the records
C12_Witness ==
  /\ Searched
  /\ last.cached
  /\ last.providerCalled
  /\ Len(documents) > 0
  /\ LastKey \in DOMAIN queryCache
  /\ last.query \in DOMAIN embeddingCache
  /\ snapshot = JsonFile(documents, snapshot.savedAt)

(***************************************************************************)
(* Filtered searches (SpecFilter): records with and without the filtered   *)
(* attributes; a date is a day number.                                     *)
(***************************************************************************)
\* a chunk whose metadata has neither documentType, keywords, summary nor date
ChunkBare == Chunk("bare_chunk_0", T_abc_def, "bare", <<>>)

\* a chunk whose metadata has all of them
ChunkFull ==
  [Chunk("full_chunk_0", T_abc_def, "full", T_email) EXCEPT
     !.metadata.keywords = <<T_abc>>,
     !.metadata.summary = T_xyz,
     !.metadata.date = 5]

FilterBatches ==
  {<<ChunkBare>>, <<ChunkFull>>, <<ChunkBare, ChunkFull>>, <<ChunkFull, ChunkBare>>,
   <<ChunkF2, ChunkBare>>}

TypeFilter(types) == [NoFilter EXCEPT !.given = TRUE, !.documentType = types]

KeywordFilter(keywords) == [NoFilter EXCEPT !.given = TRUE, !.keywords = keywords]

DateFilter(start, end) ==
  [NoFilter EXCEPT !.given = TRUE, !.dateRange = <<[start |-> start, end |-> end]>>]

FilterPool ==
  {TypeFilter(<<T_email>>), TypeFilter(<<T_contract>>),
   KeywordFilter(<<T_abc>>), KeywordFilter(<<T_contract>>),
   DateFilter(3, NoDate), DateFilter(6, 9), DateFilter(NoDate, 4),
   [TypeFilter(<<T_email>>) EXCEPT !.keywords = <<T_xyz>>]}

FilterInit ==
  \E chunks \in FilterBatches :
    \E embeddings \in [1..Len(chunks) -> EmbPool] :
      Constructed(JsonFile(MakeVectorDocs(chunks, embeddings, 1), 1), 2)

FilterSearch ==
  /\ ledger.ops < MaxOps
  /\ SearchFrom({T_abc_def}, {NoNumber}, {NoNumber}, FilterPool)

FilterNext == FilterSearch \/ Tick

SpecFilter == FilterInit /\ [][FilterNext]_vars

NoType(doc) ==
  doc.structuredMetadata.documentType = <<>> /\ doc.metadata.documentType = <<>>

NoKeywords(doc) ==
  /\ doc.structuredMetadata.keywords = <<>>
  /\ doc.metadata.keywords = <<>>
  /\ doc.metadata.summary = <<>>

NoDateOf(doc) == doc.structuredMetadata.date = NoDate /\ doc.metadata.date = NoDate

\* doc has no value for any attribute the filter tests
LacksFiltered(doc, filter) ==
  /\ Len(filter.documentType) > 0 => NoType(doc)
  /\ Len(filter.keywords) > 0 => NoKeywords(doc)
  /\ filter.dateRange # <<>> => NoDateOf(doc)

\* the records the last search would have scored above its floor without its
\* filter
Unfiltered ==
  ScoreDocuments(documents, last.query, embeddingCache[last.query].embedding,
                 last.floor, NoFilter).results

\* C13: a filtered search rejects no record that has no value for the
\* filtered attributes: a record without documentType passes a type filter,
\* one without keywords and summary passes a keyword filter, one without date
\* passes a date range.
C13_FilterKeepsRecordsWithoutValue ==
  (Computed /\ last.filter.given) =>
    \A i \in 1..Len(documents) :
      (/\ LacksFiltered(documents[i], last.filter)
       /\ \E k \in 1..Len(Unfiltered) : Unfiltered[k].id = documents[i].id)
        => \E k \in 1..Len(last.candidates) : last.candidates[k].id = documents[i].id

(***************************************************************************)
(* Vectors that point away from the query (SpecSign)                       *)
(***************************************************************************)
\* vectors of norm 5 whose cosine with one another is 1, 0.96, 0, -0.96 or -1
SignPool == EmbPool \cup {<<-3, -4>>, <<-4, -3>>, <<-4, 3>>}

SignBatches == {<<ChunkF1a>>, <<ChunkF2>>, <<ChunkF1a, ChunkF2>>}

SignInit ==
  \E chunks \in SignBatches :
    \E embeddings \in [1..Len(chunks) -> SignPool] :
      Constructed(JsonFile(MakeVectorDocs(chunks, embeddings, 1), 1), 2)

\* searches with the default floor and with floors below 0
SignSearch ==
  /\ ledger.ops < MaxOps
  /\ \E minSimilarity \in {NoNumber, <<-5000>>, <<-10000>>},
        embedding \in SignPool, outcome \in {"ok", "fail"} :
       Search(T_abc_def, NoNumber, minSimilarity, NoFilter, embedding, outcome)

SignNext == SignSearch \/ Tick

SpecSign == SignInit /\ [][SignNext]_vars

\* C14: every result of a search has a similarity in [0, 1] and a distance of
\* 1 minus its similarity.
C14_SimilarityWithinUnitInterval ==
  Searched =>
    \A i \in 1..Len(last.results) :
      /\ last.results[i].similarity >= 0
      /\ last.results[i].similarity <= Scale
      /\ last.results[i].distance = Scale - last.results[i].similarity

(***************************************************************************)
(* The segmenter (chunkTextSemantically).  The texts of the model are made *)
(* of the letters a, b, x, the digit 5, "$", blank and newline.  On such   *)
(* texts no header line, contract heading, identifier, bullet, keyword or  *)
(* sentence end can match, so of the patterns of the three strategies only *)
(* the dollar amount and the paragraph break are spelled out.              *)
(***************************************************************************)
NL == "\n"

IsWhitespace(c) == c \in {" ", NL}

\* the text from its first to its last character that is not whitespace
TrimWsStart(s) ==
  LET kept == {i \in 1..Len(s) : ~IsWhitespace(s[i])}
  IN  IF kept = {} THEN <<>>
      ELSE SubSeq(s, CHOOSE i \in kept : \A k \in kept : i <= k, Len(s))

TrimWsEnd(s) ==
  LET trailing == {i \in 1..Len(s) : \A k \in i..Len(s) : IsWhitespace(s[k])}
  IN  SubSeq(s, 1, Len(s) - Cardinality(trailing))

\* String.prototype.trim on a text with newlines
TrimWs(s) == TrimWsEnd(TrimWsStart(s))

\* the last index of the run of whitespace that begins at i
RunEnd(s, i) ==
  LET stops == {j \in i..Len(s) : j = Len(s) \/ ~IsWhitespace(s[j + 1])}
  IN  CHOOSE j \in stops : \A k \in stops : j <= k

\* /\n\s*\n/ matched at i: the index of the last character of the match, or
\* 0 when there is no match at i
BreakEnd(s, i) ==
  IF s[i] # NL THEN 0
  ELSE LET newlines == {j \in (i + 1)..RunEnd(s, i) : s[j] = NL}
       IN  IF newlines = {} THEN 0
           ELSE CHOOSE j \in newlines : \A k \in newlines : k <= j

\* the first index from i on at which /\n\s*\n/ matches, or 0
NextBreak(s, i) ==
  LET starts == {j \in i..Len(s) : BreakEnd(s, j) # 0}
  IN  IF starts = {} THEN 0 ELSE CHOOSE j \in starts : \A k \in starts : j <= k

\* text.split(/\n\s*\n/)
RECURSIVE SplitParagraphsFrom(_, _)
SplitParagraphsFrom(s, i) ==
  IF NextBreak(s, i) = 0 THEN <<SubSeq(s, i, Len(s))>>
  ELSE <<SubSeq(s, i, NextBreak(s, i) - 1)>>
       \o SplitParagraphsFrom(s, BreakEnd(s, NextBreak(s, i)) + 1)

SplitParagraphs(s) == SplitParagraphsFrom(s, 1)

\* match.index of every match of /\n\s*\n/gm, in text order
RECURSIVE ParagraphBreakIndexes(_, _)
ParagraphBreakIndexes(s, i) ==
  IF NextBreak(s, i) = 0 THEN <<>>
  ELSE <<NextBreak(s, i) - 1>>
       \o ParagraphBreakIndexes(s, BreakEnd(s, NextBreak(s, i)) + 1)

\* /\$[\d,]+\.?\d*/g.test(s) on an expression whose lastIndex is given: the
\* search begins at lastIndex, and the value is the expression's new
\* lastIndex, the end of the match, or 0 when nothing matches from there on
DollarAmount(s, lastIndex) ==
  LET starts == {i \in (lastIndex + 1)..(Len(s) - 1) :
                   s[i] = "$" /\ s[i + 1] \in {"5", ","}}
      first == CHOOSE i \in starts : \A k \in starts : i <= k
      stops == {j \in (first + 1)..Len(s) : s[j] \notin {"5", ","}}
  IN  IF starts = {} THEN 0
      ELSE IF stops = {} THEN Len(s)
      ELSE (CHOOSE j \in stops : \A k \in stops : j <= k) - 1

maxChunkLength == 900

minChunkLength == 20

minSectionSize == 50

\* the type the email strategy gives a paragraph
paragraphType(trimmedParagraph, lastIndex) ==
  IF DollarAmount(trimmedParagraph, lastIndex) # 0 THEN "financial" ELSE "general"

\* the types of the paragraphs in the order the loop tests them: the
\* dollar-amount expression is global, so each test leaves its lastIndex to
\* the next
RECURSIVE ParagraphTypesFrom(_, _, _)
ParagraphTypesFrom(paragraphs, i, lastIndex) ==
  IF i > Len(paragraphs) THEN <<>>
  ELSE <<paragraphType(TrimWs(paragraphs[i]), lastIndex)>>
       \o ParagraphTypesFrom(paragraphs, i + 1,
                             DollarAmount(TrimWs(paragraphs[i]), lastIndex))

Joined(currentChunk, separator, piece) ==
  IF currentChunk = <<>> THEN piece ELSE currentChunk \o separator \o piece

PushTrimmed(chunks, currentChunk) ==
  IF TrimWs(currentChunk) # <<>> THEN Append(chunks, TrimWs(currentChunk)) ELSE chunks

SelectSeq20(chunks) == SelectSeq(chunks, LAMBDA chunk : Len(chunk) >= minChunkLength)

\* the paragraph loop of chunkEmailSemantically
RECURSIVE EmailFrom(_, _, _, _, _, _)
EmailFrom(paragraphs, types, i, chunks, currentChunk, currentType) ==
  IF i > Len(paragraphs) THEN PushTrimmed(chunks, currentChunk)
  ELSE LET trimmedParagraph == TrimWs(paragraphs[i])
           type == types[i]
           testChunk == Joined(currentChunk, <<NL, NL>>, trimmedParagraph)
       IN  IF currentType # type /\ TrimWs(currentChunk) # <<>>
           THEN EmailFrom(paragraphs, types, i + 1, Append(chunks, TrimWs(currentChunk)),
                          trimmedParagraph, type)
           ELSE IF Len(testChunk) <= maxChunkLength
                THEN EmailFrom(paragraphs, types, i + 1, chunks, testChunk, currentType)
                ELSE EmailFrom(paragraphs, types, i + 1,
                               PushTrimmed(chunks, currentChunk), trimmedParagraph, type)

\* the paragraphs of the body: the pieces between blank lines that are not
\* blank themselves
BodyParagraphs(text) ==
  SelectSeq(SplitParagraphs(text), LAMBDA p : TrimWs(p) # <<>>)

\* chunkEmailSemantically on a text without header lines
chunkEmailSemantically(text) ==
  LET paragraphs == BodyParagraphs(text)
  IN  SelectSeq20(EmailFrom(paragraphs, ParagraphTypesFrom(paragraphs, 1, 0), 1,
                            <<>>, <<>>, "general"))

\* the loop of the paragraph fall-back of chunkContractSemantically
RECURSIVE ContractFrom(_, _, _, _)
ContractFrom(paragraphs, i, chunks, currentChunk) ==
  IF i > Len(paragraphs) THEN PushTrimmed(chunks, currentChunk)
  ELSE LET testChunk == Joined(currentChunk, <<NL, NL>>, paragraphs[i])
       IN  IF Len(testChunk) <= maxChunkLength
           THEN ContractFrom(paragraphs, i + 1, chunks, testChunk)
           ELSE ContractFrom(paragraphs, i + 1, PushTrimmed(chunks, currentChunk),
                             paragraphs[i])

IdentifierChars ==
  UpperSet \cup LowerSet
    \cup {"0", "1", "2", "3", "4", "5", "6", "7", "8", "9", "-"}

Str_reference == <<"r", "e", "f", "e", "r", "e", "n", "c", "e">>

\* /Reference:?\s*[A-Z0-9-]+/gi matched at i: the index of its last
\* character, or 0
ReferenceEnd(text, i) ==
  LET n == Len(Str_reference)
      afterWord == i + n
      afterColon == IF afterWord <= Len(text) /\ text[afterWord] = ":"
                    THEN afterWord + 1 ELSE afterWord
      blanks == {j \in afterColon..Len(text) : ~IsWhitespace(text[j])}
      start == IF blanks = {} THEN Len(text) + 1
               ELSE CHOOSE j \in blanks : \A k \in blanks : j <= k
      stops == {j \in start..Len(text) : text[j] \notin IdentifierChars}
      end == IF stops = {} THEN Len(text)
             ELSE (CHOOSE j \in stops : \A k \in stops : j <= k) - 1
  IN  IF i + n - 1 > Len(text) \/ ToLowerCase(SubSeq(text, i, i + n - 1)) # Str_reference
      THEN 0
      ELSE IF end < start THEN 0 ELSE end

\* text.match(pattern) || [] for the Reference pattern
RECURSIVE ReferenceMatchesFrom(_, _)
ReferenceMatchesFrom(text, i) ==
  LET starts == {j \in i..Len(text) : ReferenceEnd(text, j) # 0}
      first == CHOOSE j \in starts : \A k \in starts : j <= k
  IN  IF starts = {} THEN <<>>
      ELSE <<SubSeq(text, first, ReferenceEnd(text, first))>>
           \o ReferenceMatchesFrom(text, ReferenceEnd(text, first) + 1)

\* identifiers.join("\n")
RECURSIVE JoinLines(_)
JoinLines(parts) ==
  IF Len(parts) = 1 THEN parts[1]
  ELSE JoinLines(SubSeq(parts, 1, Len(parts) - 1)) \o <<NL>> \o parts[Len(parts)]

\* the paragraph chunking chunkContractSemantically falls back to
ParagraphFallback(text) == ContractFrom(SplitParagraphs(text), 1, <<>>, <<>>)

\* chunkContractSemantically on a text of the model: it holds no section
\* heading and no "Contract" or "Agreement" identifier, so the only chunk
\* made before the fall-back is the one of the Reference identifiers; the
\* fall-back runs when no chunk was made
chunkContractSemantically(text) ==
  LET identifiers == ReferenceMatchesFrom(text, 1)
      chunks == IF Len(identifiers) > 0 THEN <<JoinLines(identifiers)>> ELSE <<>>
  IN  SelectSeq20(IF Len(chunks) = 0 THEN ParagraphFallback(text) ELSE chunks)

\* sectionBoundaries of chunkTextEnhanced after the sort: 0, the paragraph
\* breaks and text.length
sectionBoundaries(text) ==
  <<0>> \o SelectSeq(ParagraphBreakIndexes(text, 1), LAMBDA position : position > 0)
        \o <<Len(text)>>

\* boundaries closer than minSectionSize to the last one kept are dropped
RECURSIVE FilterBoundaries(_, _, _)
FilterBoundaries(boundaries, i, filteredBoundaries) ==
  IF i > Len(boundaries) THEN filteredBoundaries
  ELSE IF boundaries[i] - filteredBoundaries[Len(filteredBoundaries)] >= minSectionSize
       THEN FilterBoundaries(boundaries, i + 1, Append(filteredBoundaries, boundaries[i]))
       ELSE FilterBoundaries(boundaries, i + 1, filteredBoundaries)

\* replace(/\n{3,}/g, "\n\n").replace(/\s{2,}/g, " "): every run of two or
\* more whitespace characters becomes one blank
RECURSIVE CollapseWhitespace(_, _)
CollapseWhitespace(s, i) ==
  LET runs == {j \in i..Len(s) : IsWhitespace(s[j]) /\ RunEnd(s, j) > j}
      first == CHOOSE j \in runs : \A k \in runs : j <= k
  IN  IF runs = {} THEN SubSeq(s, i, Len(s))
      ELSE SubSeq(s, i, first - 1) \o <<" ">>
           \o CollapseWhitespace(s, RunEnd(s, first) + 1)

SentenceEnds == {".", "!", "?"}

\* split(/(?<=[.!?])\s+/): the separators are the runs of whitespace that
\* follow a ".", "!" or "?"
RECURSIVE SplitSentencesFrom(_, _)
SplitSentencesFrom(text, p) ==
  LET breaks == {i \in p..Len(text) :
                   i > 1 /\ IsWhitespace(text[i]) /\ text[i - 1] \in SentenceEnds}
      first == CHOOSE i \in breaks : \A k \in breaks : i <= k
  IN  IF breaks = {} THEN <<SubSeq(text, p, Len(text))>>
      ELSE <<SubSeq(text, p, first - 1)>>
           \o SplitSentencesFrom(text, RunEnd(text, first) + 1)

SplitSentences(text) == SplitSentencesFrom(text, 1)

\* the sentence loop of splitLargeSectionSemantically and of
\* fallbackChunkingSemantically
RECURSIVE SentenceLoop(_, _, _, _, _, _)
SentenceLoop(sentences, maxLength, i, chunks, currentChunk, currentLength) ==
  IF i > Len(sentences) THEN PushTrimmed(chunks, currentChunk)
  ELSE LET sentence == sentences[i]
           sentenceLength == Len(sentence)
       IN  IF currentLength + sentenceLength > maxLength /\ Len(currentChunk) > 0
           THEN SentenceLoop(sentences, maxLength, i + 1,
                             Append(chunks, TrimWs(currentChunk)),
                             sentence, sentenceLength)
           ELSE SentenceLoop(sentences, maxLength, i + 1, chunks,
                             currentChunk
                               \o (IF currentChunk # <<>> THEN <<" ">> ELSE <<>>)
                               \o sentence,
                             currentLength + sentenceLength)

splitLargeSectionSemantically(sectionText, maxLength) ==
  SentenceLoop(SplitSentences(sectionText), maxLength, 1, <<>>, <<>>, 0)

fallbackChunkingSemantically(text, maxLength) ==
  SentenceLoop(SplitSentences(text), maxLength, 1, <<>>, <<>>, 0)

\* the section loop of chunkTextEnhanced
RECURSIVE SectionsFrom(_, _, _, _)
SectionsFrom(text, filteredBoundaries, i, chunks) ==
  IF i > Len(filteredBoundaries) - 1 THEN chunks
  ELSE LET sectionText ==
             TrimWs(SubSeq(text, filteredBoundaries[i] + 1, filteredBoundaries[i + 1]))
           cleanedSection == TrimWs(CollapseWhitespace(sectionText, 1))
       IN  IF sectionText = <<>> \/ cleanedSection = <<>>
           THEN SectionsFrom(text, filteredBoundaries, i + 1, chunks)
           ELSE IF Len(cleanedSection) <= maxChunkLength
                THEN SectionsFrom(text, filteredBoundaries, i + 1,
                                  Append(chunks, cleanedSection))
                ELSE SectionsFrom(text, filteredBoundaries, i + 1,
                                  chunks \o splitLargeSectionSemantically(cleanedSection,
                                                                          maxChunkLength))

CountMeaningful(chunk) == Cardinality({i \in 1..Len(chunk) : ~IsWhitespace(chunk[i])})

\* postProcessChunks
RECURSIVE PostProcessFrom(_, _, _, _)
PostProcessFrom(chunks, i, processedChunks, seenChunks) ==
  IF i > Len(chunks) THEN processedChunks
  ELSE LET chunk == chunks[i]
           chunkLower == TrimWs(ToLowerCase(chunk))
       IN  IF \/ Len(chunk) < minChunkLength
              \/ chunkLower \in seenChunks
              \/ 10 * CountMeaningful(chunk) < 3 * Len(chunk)
           THEN PostProcessFrom(chunks, i + 1, processedChunks, seenChunks)
           ELSE PostProcessFrom(chunks, i + 1, Append(processedChunks, chunk),
                                seenChunks \cup {chunkLower})

postProcessChunks(chunks) == PostProcessFrom(chunks, 1, <<>>, {})

\* filteredBoundaries of chunkTextEnhanced
FilteredBoundaries(text) ==
  LET boundaries == sectionBoundaries(text)
  IN  FilterBoundaries(boundaries, 2, <<boundaries[1]>>)

chunkTextEnhanced(text) ==
  LET chunks == SectionsFrom(text, FilteredBoundaries(text), 1, <<>>)
  IN  postProcessChunks(IF chunks = <<>>
                        THEN fallbackChunkingSemantically(text, maxChunkLength)
                        ELSE chunks)

\* filenameLower.endsWith(".eml") on the filenames of the model
EndsWithEml(filename) == filename \in {"mail.eml"}

\* filenameLower.includes("invoice") on the filenames of the model
NamesInvoice(filename) == FALSE

detectDocumentType(text, filename) ==
  LET textLower == ToLowerCase(text)
  IN  IF \/ EndsWithEml(filename)
         \/ /\ Includes(textLower, <<"f", "r", "o", "m", ":">>)
            /\ Includes(textLower, <<"t", "o", ":">>)
            /\ Includes(textLower, <<"s", "u", "b", "j", "e", "c", "t", ":">>)
      THEN "email"
      ELSE IF \/ Includes(textLower, <<"c", "o", "n", "t", "r", "a", "c", "t">>)
              \/ Includes(textLower, <<"a", "g", "r", "e", "e", "m", "e", "n", "t">>)
      THEN IF \/ Includes(textLower, <<"a", "m", "e", "n", "d", "m", "e", "n", "t">>)
              \/ Includes(textLower, <<"a", "d", "d", "e", "n", "d", "u", "m">>)
           THEN "contract_amendment" ELSE "contract"
      ELSE IF Includes(textLower, <<"i", "n", "v", "o", "i", "c", "e">>) \/ NamesInvoice(filename)
      THEN "invoice"
      ELSE IF \/ Includes(textLower, <<"f", "i", "n", "a", "n", "c", "i", "a", "l">>)
              \/ Includes(textLower, <<"r", "e", "v", "e", "n", "u", "e">>)
              \/ Includes(textLower, <<"p", "r", "o", "f", "i", "t">>)
      THEN "financial"
      ELSE "other"

chunkTextSemantically(text, filename, documentType) ==
  LET detectedType == IF documentType # Undefined /\ documentType # ""
                      THEN documentType ELSE detectDocumentType(text, filename)
  IN  IF detectedType = "email" THEN chunkEmailSemantically(text)
      ELSE IF detectedType \in {"contract", "contract_amendment"}
           THEN chunkContractSemantically(text)
      ELSE chunkTextEnhanced(text)

(***************************************************************************)
(* Calls of the segmenter (SpecChunk)                                      *)
(***************************************************************************)
Repeat(c, n) == [i \in 1..n |-> c]

\* paragraphs: 20 letters, a dollar amount with 18 letters, 2 letters, 50
\* letters
ParagraphPool ==
  {Repeat("a", 20), <<"$", "5">> \o Repeat("b", 18), <<"x", "x">>, Repeat("x", 50)}

MaxParagraphs == 3

RECURSIVE TextsOf(_)
TextsOf(n) ==
  IF n = 1 THEN ParagraphPool
  ELSE TextsOf(n - 1) \cup
       {t \o <<NL, NL>> \o p : t \in TextsOf(n - 1), p \in ParagraphPool}

TextPool == TextsOf(MaxParagraphs)

\* an instance that is not used: the segmenter has no state
Idle ==
  /\ documents = <<>>
  /\ snapshot = MissingFile
  /\ queryCache = EmptyCache
  /\ embeddingCache = EmptyCache
  /\ now = 1
  /\ last = NoLast
  /\ ledger = NewLedger(0, <<>>)

ChunkCall ==
  \E text \in TextPool, filename \in {"mail.eml", "notes.txt"},
     documentType \in {Undefined, "email", "contract", "other"} :
    /\ ledger.ops = 0
    /\ last' = [op |-> "chunkTextSemantically", text |-> text,
                filename |-> filename, documentType |-> documentType,
                chunks |-> chunkTextSemantically(text, filename, documentType)]
    /\ ledger' = [ledger EXCEPT !.ops = @ + 1]
    /\ UNCHANGED <<documents, snapshot, queryCache, embeddingCache, now>>

SpecChunk == Idle /\ [][ChunkCall]_vars

\* C15: for a non-empty text, every chunk chunkTextSemantically returns has
\* at least 20 characters after trimming, and no two returned chunks are
\* equal after case-folding and trimming.
C15_ChunksLongEnoughAndDistinct ==
  (last.op = "chunkTextSemantically" /\ last.text # <<>>) =>
    /\ \A i \in 1..Len(last.chunks) : Len(TrimWs(last.chunks[i])) >= 20
    /\ \A i, j \in 1..Len(last.chunks) :
         i # j => TrimWs(ToLowerCase(last.chunks[i])) # TrimWs(ToLowerCase(last.chunks[j]))

\* the call went to the email strategy
EmailCall ==
  /\ last.op = "chunkTextSemantically"
  /\ \/ last.documentType = "email"
     \/ /\ last.documentType = Undefined
        /\ detectDocumentType(last.text, last.filename) = "email"

\* C22: in the email strategy two consecutive paragraphs of the same type are
\* in one chunk whenever, joined by a blank line, they have at most 900
\* characters, and two consecutive paragraphs of different types are never in
\* one chunk, from the first paragraph on.  (Pairs shorter than the minimum
\* chunk length are left out: the final filter removes such chunks.)
C22_SameTypeTogetherDifferentApart ==
  EmailCall =>
    LET paragraphs == BodyParagraphs(last.text)
        types == ParagraphTypesFrom(paragraphs, 1, 0)
    IN  \A i \in 1..(Len(paragraphs) - 1) :
          LET pair == TrimWs(paragraphs[i]) \o <<NL, NL>> \o TrimWs(paragraphs[i + 1])
              together == \E k \in 1..Len(last.chunks) : Includes(last.chunks[k], pair)
          IN  /\ types[i] # types[i + 1] => ~together
              /\ (/\ types[i] = types[i + 1]
                  /\ Len(pair) <= maxChunkLength
                  /\ Len(pair) >= minChunkLength) => together

GenericCall ==
  /\ last.op = "chunkTextSemantically"
  /\ last.documentType \in {Undefined, "other"}
  /\ last.documentType = Undefined => detectDocumentType(last.text, last.filename) = "other"

\* C24: in the generic strategy the spans left after the merge of close
\* boundaries start at offset 0 and end at the end of the text (they are
\* contiguous, each ending where the next begins), so no text is lost; a text
\* left without any span goes whole to the sentence fall-back.
C24_SpansCoverText ==
  GenericCall =>
    LET filteredBoundaries == FilteredBoundaries(last.text)
    IN  /\ filteredBoundaries[1] = 0
        /\ \/ Len(filteredBoundaries) = 1
           \/ filteredBoundaries[Len(filteredBoundaries)] = Len(last.text)

(***************************************************************************)
(* add is all-or-nothing (Spec)                                            *)
(***************************************************************************)
AddStep == last'.op = "add" /\ ledger'.ops = ledger.ops + 1

Appended == SubSeq(documents', Len(documents) + 1, Len(documents'))

\* C29: an add whose provider call fails, or returns fewer vectors than
\* chunks, throws and leaves the collection, the snapshot and both caches as
\* they were; an add that succeeds appends every chunk of the batch in input
\* order, all with the same timestamp.
C29_AddAllOrNothing ==
  [][AddStep =>
       /\ last'.error \in {"fail", "short"} <=> last'.threw
       /\ IF last'.threw
          THEN UNCHANGED <<documents, snapshot, queryCache, embeddingCache>>
          ELSE /\ SubSeq(documents', 1, Len(documents)) = documents
               /\ Len(Appended) = Len(last'.chunks)
               /\ \A i \in 1..Len(Appended) :
                    /\ Appended[i].id = last'.chunks[i].id
                    /\ Appended[i].text = last'.chunks[i].text
                    /\ Appended[i].metadata = last'.chunks[i].metadata
                    /\ Appended[i].timestamp = Appended[1].timestamp
                    /\ Appended[i].norm = calculateNorm(Appended[i].embedding)
               /\ UNCHANGED <<queryCache, embeddingCache>>]_vars

\* an add of two chunks threw for a missing vector on an index that holds
\* records
C29_Witness ==
  /\ last.op = "add"
  /\ last.threw
  /\ last.error = "short"
  /\ Len(last.chunks) = 2
  /\ Len(documents) > 0

(***************************************************************************)
(* Two upload requests in flight (SpecRace).  Each request builds its own  *)
(* instance with vectorStore() and calls add on it; the awaits of the key  *)
(* fetch and of embedDocuments are the points where the other request can  *)
(* run.  last.requests holds each request's position and its instance's    *)
(* collection, last.saved the requests in the order of their writes.       *)
(***************************************************************************)
Requests == {1, 2}

UploadBatches == [r \in Requests |-> IF r = 1 THEN {<<ChunkF1a>>, <<ChunkF1b, ChunkF1a>>}
                                     ELSE {<<ChunkF2>>, <<ChunkNoName>>}]

NoRequest == [pc |-> "idle", documentChunks |-> <<>>, documents |-> <<>>]

RaceInit ==
  /\ snapshot \in InitFiles
  /\ documents = <<>>
  /\ queryCache = EmptyCache
  /\ embeddingCache = EmptyCache
  /\ now = 1
  /\ last = [op |-> "uploads", requests |-> [r \in Requests |-> NoRequest],
             saved |-> <<>>]
  /\ ledger = NewLedger(0, <<>>)

RaceFrame == UNCHANGED <<documents, queryCache, embeddingCache, now, ledger>>

\* POST of the upload route up to "About to store": the chunks are ready
UploadArrives(r) ==
  /\ last.requests[r].pc = "idle"
  /\ \E batch \in UploadBatches[r] :
       last' = [last EXCEPT !.requests[r].pc = "fetching",
                            !.requests[r].documentChunks = StampMetadata(batch, now)]
  /\ UNCHANGED snapshot
  /\ RaceFrame

\* vectorStore(): the key fetch ends; on success the constructor loads the
\* snapshot as it is now, on failure the route logs the error
UploadBuilds(r) ==
  /\ last.requests[r].pc = "fetching"
  /\ \E keyFetch \in {"ok", "fail"} :
       last' = IF keyFetch = "ok"
               THEN [last EXCEPT !.requests[r].pc = "embedding",
                                 !.requests[r].documents = loadDocuments(snapshot).documents]
               ELSE [last EXCEPT !.requests[r].pc = "done"]
  /\ UNCHANGED snapshot
  /\ RaceFrame

\* add after its await: embedDocuments has failed, or the records are pushed
\* and the instance's whole collection is written over the snapshot
UploadAdds(r) ==
  /\ last.requests[r].pc = "embedding"
  /\ \E outcome \in {"ok", "fail"}, writeOk \in BOOLEAN, e \in EmbPool :
       LET chunks == last.requests[r].documentChunks
           vectorDocs == MakeVectorDocs(chunks, [i \in 1..Len(chunks) |-> e], now)
           pushed == last.requests[r].documents \o vectorDocs
       IN  IF outcome = "ok"
           THEN /\ snapshot' = saveDocuments(snapshot, pushed, now, writeOk)
                /\ last' = [last EXCEPT
                              !.requests[r].pc = "done",
                              !.requests[r].documents = pushed,
                              !.saved = IF writeOk THEN Append(@, r) ELSE @]
           ELSE /\ writeOk
                /\ e = AnEmbedding
                /\ UNCHANGED snapshot
                /\ last' = [last EXCEPT !.requests[r].pc = "done"]
  /\ RaceFrame

RaceNext == \E r \in Requests : UploadArrives(r) \/ UploadBuilds(r) \/ UploadAdds(r)

SpecRace == RaceInit /\ [][RaceNext]_vars

\* C28: the snapshot is the collection of the instance that wrote last.
C28_LastWriterWins ==
  last.op = "uploads" /\ Len(last.saved) > 0 =>
    /\ snapshot.kind = "json"
    /\ snapshot.documents = last.requests[last.saved[Len(last.saved)]].documents

\* both requests have written, and no chunk of the first writer is in the
\* snapshot
C28_Witness ==
  /\ last.op = "uploads"
  /\ \A r \in Requests : last.requests[r].pc = "done"
  /\ Len(last.saved) = 2
  /\ \A i \in 1..Len(snapshot.documents) :
       \A k \in 1..Len(last.requests[last.saved[1]].documentChunks) :
         snapshot.documents[i].id # last.requests[last.saved[1]].documentChunks[k].id

(***************************************************************************)
(* One instance over several calls (SpecStale): searches with one set of   *)
(* parameters, adds and clears, with the clock moving between them.        *)
(***************************************************************************)
MaxStaleOps == 4

StaleInit == \E file \in {MissingFile, JsonFile(MakeVectorDocs(<<ChunkF1a>>, <<AnEmbedding>>, 0), 0)} : Constructed(file, 1)

StaleSearch ==
  /\ ledger.ops < MaxStaleOps
  /\ SearchFrom({T_abc_def}, {NoNumber}, {NoNumber}, {NoFilter})

StaleAdd ==
  \E chunks \in {<<ChunkF1b>>, <<ChunkF2>>}, e \in EmbPool, outcome \in {"ok", "fail"} :
    /\ ledger.ops < MaxStaleOps
    /\ outcome = "fail" => e = AnEmbedding
    /\ Add(chunks, now, [i \in 1..Len(chunks) |-> e], outcome, TRUE)

StaleClear == ledger.ops < MaxStaleOps /\ Clear(TRUE)

StaleTick ==
  \E d \in TickPool :
    /\ ledger.ops < MaxStaleOps
    /\ now + d <= MaxTime
    /\ now' = now + d
    /\ UNCHANGED <<documents, snapshot, queryCache, embeddingCache, last, ledger>>

StaleNext == StaleSearch \/ StaleAdd \/ StaleClear \/ StaleTick

SpecStale == StaleInit /\ [][StaleNext]_vars

ClearStep == last'.op = "clear" /\ ledger'.ops = ledger.ops + 1

SearchStep == last'.op = "search" /\ ledger'.ops = ledger.ops + 1

LastCacheKey == CacheKey(last'.query, last'.limit, last'.floor, last'.filter)

\* the record a result was made from is in the collection
Held(result) ==
  \E i \in 1..Len(documents) :
    documents[i].id = result.id /\ documents[i].timestamp = result.recordTimestamp

\* C30: add leaves the query cache as it is and clear empties it; a search
\* on a non-empty index that finds an entry for its parameters younger than
\* 5 minutes returns the cached list, whatever was added since; and every
\* result a search returns is made from a record the collection holds, so
\* none is returned for a record that clear removed.
C30_StaleAfterAddFreshAfterClear ==
  /\ [][AddStep => queryCache' = queryCache]_vars
  /\ [][ClearStep => queryCache' = EmptyCache]_vars
  /\ [][SearchStep /\ Len(documents) > 0 /\ LastCacheKey \in DOMAIN queryCache
          /\ now - queryCache[LastCacheKey].timestamp < cacheTimeout
        => last'.results = queryCache[LastCacheKey].results]_vars
  /\ [](last.op = "search" =>
          \A k \in 1..Len(last.results) : Held(last.results[k]))

\* a search answered from the cache although the collection holds a record
\* added after the list was cached
C30_Witness ==
  /\ last.op = "search"
  /\ last.cacheHit
  /\ Len(last.results) > 0
  /\ \E i \in 1..Len(documents) :
       /\ documents[i].timestamp > last.entryTimestamp
       /\ \A k \in 1..Len(last.results) : last.results[k].id # documents[i].id

(***************************************************************************)
(* The segmentation step of the upload route (SpecUpload).                 *)
(***************************************************************************)
\* chunkText: the legacy entry point the upload route calls
chunkText(text, chunkSize, overlap) == chunkTextSemantically(text, "unknown", "other")

Txt_Triad == <<"f", "r", "o", "m", ":", " ", "a", "a", "a", "a", "a", "a", "a", "a",
    " ", "t", "o", ":", " ", "b", " ", "s", "u", "b", "j", "e", "c", "t",
    ":", " ", "c">>

Txt_ContractWord == <<"c", "o", "n", "t", "r", "a", "c", "t", " ", "a", "a", "a", "a", "a",
    "a", "a", "a", "a", "a", "a", "a", "a", "a", "a", "a", "a", "a", "a",
    "a">>

UploadParagraphs ==
  {Repeat("a", 20), <<"$", "5">> \o Repeat("b", 18), Repeat("x", 50),
   Txt_Triad, Txt_ContractWord}

MaxUploadParagraphs == 3

RECURSIVE UploadTexts(_)
UploadTexts(n) ==
  IF n = 1 THEN UploadParagraphs
  ELSE UploadTexts(n - 1) \cup
       {t \o <<NL, NL>> \o paragraph :
          t \in UploadTexts(n - 1), paragraph \in UploadParagraphs}

uploadChunkSize == 1200

uploadOverlap == 150

\* POST of the upload route up to the chunks it hands to the stores
UploadCall ==
  /\ ledger.ops = 0
  /\ \E text \in UploadTexts(MaxUploadParagraphs), filename \in {"mail.eml", "notes.txt"} :
       last' = [op |-> "upload", text |-> text, filename |-> filename,
                chunks |-> chunkText(text, uploadChunkSize, uploadOverlap)]
  /\ ledger' = [ledger EXCEPT !.ops = @ + 1]
  /\ UNCHANGED <<documents, snapshot, queryCache, embeddingCache, now>>

SpecUpload == Idle /\ [][UploadCall]_vars

\* the strategy chunkTextSemantically has for a document type
StrategyChunks(text, detectedType) ==
  IF detectedType = "email" THEN chunkEmailSemantically(text)
  ELSE IF detectedType \in {"contract", "contract_amendment"}
       THEN chunkContractSemantically(text)
  ELSE chunkTextEnhanced(text)

\* C27: the chunks of an uploaded document are those of the strategy of its
\* detected type: the email strategy for the from:/to:/subject: triad or an
\* .eml filename, else the contract strategy for a text naming a contract or
\* an agreement, else the generic strategy.
C27_UploadUsesDetectedStrategy ==
  last.op = "upload" =>
    last.chunks = StrategyChunks(last.text, detectDocumentType(last.text, last.filename))

(***************************************************************************)
(* splitLargeSectionSemantically on sections longer than the target length *)
(* (SpecSplit): sentences of given lengths, one blank between them.        *)
(***************************************************************************)
Sentence(n) == Repeat("a", n - 1) \o <<".">>

SentenceLengths == {300, 449, 450, 451, 901}

MaxSentences == 3

RECURSIVE SectionsOf(_)
SectionsOf(n) ==
  IF n = 1 THEN {Sentence(length) : length \in SentenceLengths}
  ELSE SectionsOf(n - 1) \cup
       {t \o <<" ">> \o Sentence(length) :
          t \in SectionsOf(n - 1), length \in SentenceLengths}

\* chunkTextEnhanced calls it for a cleaned section longer than maxChunkLength
SplitCall ==
  /\ ledger.ops = 0
  /\ \E sectionText \in SectionsOf(MaxSentences) :
       /\ Len(sectionText) > maxChunkLength
       /\ last' = [op |-> "splitLargeSectionSemantically",
                   sectionText |-> sectionText,
                   chunks |-> splitLargeSectionSemantically(sectionText, maxChunkLength)]
  /\ ledger' = [ledger EXCEPT !.ops = @ + 1]
  /\ UNCHANGED <<documents, snapshot, queryCache, embeddingCache, now>>

SpecSplit == Idle /\ [][SplitCall]_vars

\* C25: every sub-chunk of a re-split section that is made of two or more
\* sentences is at most maxChunkLength (900) characters long, the joining
\* blanks included.
C25_JoinedSentencesWithinTarget ==
  last.op = "splitLargeSectionSemantically" =>
    \A k \in 1..Len(last.chunks) :
      Len(SplitSentences(last.chunks[k])) >= 2 => Len(last.chunks[k]) <= maxChunkLength

(***************************************************************************)
(* The fixed-window chunker fallbackChunking (README.md), one loop          *)
(* iteration per step (SpecWindow).                                        *)
(***************************************************************************)
\* chunk.lastIndexOf(pattern), a 0-based index or -1
LastIndexOf(chunk, pattern) ==
  LET found == {i \in 1..(Len(chunk) - Len(pattern) + 1) :
                  SubSeq(chunk, i, i + Len(pattern) - 1) = pattern}
  IN  IF found = {} THEN 0 - 1
      ELSE (CHOOSE i \in found : \A k \in found : k <= i) - 1

Max3(a, b, c) ==
  IF a >= b /\ a >= c THEN a ELSE IF b >= c THEN b ELSE c

\* the chunk of one iteration: the window, cut after the last full stop or
\* newline when that lies beyond start + chunkSize * 0.5
WindowChunk(text, start, chunkSize) ==
  LET end == IF start + chunkSize < Len(text) THEN start + chunkSize ELSE Len(text)
      chunk == SubSeq(text, start + 1, end)
      breakPoint == Max3(LastIndexOf(chunk, <<".">>), LastIndexOf(chunk, <<NL>>),
                         LastIndexOf(chunk, <<NL, NL>>))
  IN  IF end < Len(text) /\ 2 * breakPoint > 2 * start + chunkSize
      THEN SubSeq(text, start + 1,
                  IF start + breakPoint + 1 < Len(text)
                  THEN start + breakPoint + 1 ELSE Len(text))
      ELSE chunk

AdvanceStart_MayStall(start, chunkLength, chunkSize, overlap) ==
  start + (IF chunkLength - overlap > 0 THEN chunkLength - overlap ELSE 0)

\* the next window start: start + Math.max(chunk.length - overlap, 1), or
\* start + chunkSize should that not lie beyond start
AdvanceStart(start, chunkLength, chunkSize, overlap) ==
  LET nextStart == start + (IF chunkLength - overlap > 1 THEN chunkLength - overlap ELSE 1)
  IN  IF nextStart <= start THEN start + chunkSize ELSE nextStart

maxChunkCount == 1000

WindowTexts ==
  {<<>>, <<"a">>, <<" ", " ">>, Repeat("a", 7),
   <<"a", "a", "a", ".", "a", "a", "a", "a">>,
   <<"a", NL, NL, "a", "b">>}

ChunkSizes == {1, 2, 5}

Overlaps == {0, 1, 2, 5, 6}

Looping ==
  /\ last.op = "fallbackChunking"
  /\ last.pc = "loop"
  /\ last.start < Len(last.text)
  /\ Len(last.chunks) < last.maxChunks

WindowCall ==
  /\ ledger.ops = 0
  /\ \E text \in WindowTexts, chunkSize \in ChunkSizes, overlap \in Overlaps,
        maxChunks \in {2, maxChunkCount} :
       last' = [op |-> "fallbackChunking", pc |-> "loop", text |-> text,
                chunkSize |-> chunkSize, overlap |-> overlap,
                maxChunks |-> maxChunks, start |-> 0, chunks |-> <<>>]
  /\ ledger' = [ledger EXCEPT !.ops = @ + 1]
  /\ UNCHANGED <<documents, snapshot, queryCache, embeddingCache, now>>

\* one iteration of the while loop
WindowIterate ==
  /\ Looping
  /\ LET chunk == WindowChunk(last.text, last.start, last.chunkSize)
     IN  last' = [last EXCEPT
                    !.chunks = PushTrimmed(@, chunk),
                    !.start = AdvanceStart(last.start, Len(chunk),
                                           last.chunkSize, last.overlap)]
  /\ UNCHANGED <<documents, snapshot, queryCache, embeddingCache, now, ledger>>

\* the loop condition fails: return chunks
WindowReturn ==
  /\ last.op = "fallbackChunking"
  /\ last.pc = "loop"
  /\ ~Looping
  /\ last' = [last EXCEPT !.pc = "returned"]
  /\ UNCHANGED <<documents, snapshot, queryCache, embeddingCache, now, ledger>>

WindowNext == WindowCall \/ WindowIterate \/ WindowReturn

\* the loop is sequential code: an iteration that can run does run
SpecWindow ==
  Idle /\ [][WindowNext]_vars /\ WF_vars(WindowIterate) /\ WF_vars(WindowReturn)

Txt_Reference == <<"R", "e", "f", "e", "r", "e", "n", "c", "e", ":", " ", "A", "A", "A",
    "A", "A", "A", "A", "A", "A", "A", "-", "5">>

ContractParagraphs == {Repeat("a", 20), Txt_Reference, Repeat("x", 50)}

MaxContractParagraphs == 4

RECURSIVE ContractTexts(_)
ContractTexts(n) ==
  IF n = 1 THEN ContractParagraphs
  ELSE ContractTexts(n - 1) \cup
       {t \o <<NL, NL>> \o paragraph :
          t \in ContractTexts(n - 1), paragraph \in ContractParagraphs}

ContractCall ==
  /\ ledger.ops = 0
  /\ \E text \in ContractTexts(MaxContractParagraphs) :
       last' = [op |-> "chunkContractSemantically", text |-> text,
                identifiers |-> ReferenceMatchesFrom(text, 1),
                chunks |-> chunkContractSemantically(text)]
  /\ ledger' = [ledger EXCEPT !.ops = @ + 1]
  /\ UNCHANGED <<documents, snapshot, queryCache, embeddingCache, now>>

SpecContract == Idle /\ [][ContractCall]_vars

\* C23: on a text without a section heading the contract strategy returns
\* the plain paragraph chunking of the whole text, after the chunk of the
\* identifiers when identifiers were found.
C23_NoSectionGivesParagraphChunks ==
  last.op = "chunkContractSemantically" =>
    LET plain == SelectSeq20(ParagraphFallback(last.text))
    IN  \/ last.chunks = plain
        \/ /\ Len(last.identifiers) > 0
           /\ last.chunks = SelectSeq20(<<JoinLines(last.identifiers)>>) \o plain

(***************************************************************************)
(* The answer synthesizer (ai-extraction.ts).  Scores are in               *)
(* ten-thousandths, like similarities.                                     *)
(***************************************************************************)
Digits == {"0", "1", "2", "3", "4", "5", "6", "7", "8", "9"}

\* a search result as the stores return it
Result(text, similarity, filename) ==
  [text |-> text, similarity |-> similarity, metadata |-> [filename |-> filename]]

\* query.toLowerCase().split(/\s+/).filter((word) => word.length > 2)
LongWords(query) ==
  SelectSeq(SplitWs(ToLowerCase(query)), LAMBDA word : Len(word) > 2)

CountIncluded(words, textLower) ==
  Cardinality({i \in 1..Len(words) : Includes(textLower, words[i])})

\* the number of query words the word-match ratio divides by
QueryWeight(query) == Max(1, Len(LongWords(query)))

\* the relevance score filterAndRankResults gives a result, in units of
\* 1 / (Scale * QueryWeight(query)) so that the word-match ratio is exact
relevanceScore(query, result) ==
  LET queryLower == ToLowerCase(query)
      queryWords == LongWords(query)
      weight == QueryWeight(query)
      textLower == ToLowerCase(result.text)
      wordMatches == CountIncluded(queryWords, textLower)
  IN  Min(Scale * weight,
          (result.similarity
           + (IF Includes(textLower, queryLower) THEN 2000 ELSE 0)
           + (IF Len(result.text) > 200 THEN 500 ELSE 0)
           - (IF Len(result.text) < 50 THEN 1000 ELSE 0)) * weight
          + wordMatches * 1000)

\* sort((a, b) => b.relevanceScore - a.relevanceScore): the sort is stable
RECURSIVE InsertByScore(_, _)
InsertByScore(sorted, result) ==
  IF sorted = <<>> THEN <<result>>
  ELSE IF sorted[Len(sorted)].relevanceScore >= result.relevanceScore
       THEN Append(sorted, result)
       ELSE Append(InsertByScore(SubSeq(sorted, 1, Len(sorted) - 1), result),
                   sorted[Len(sorted)])

RECURSIVE SortByScore(_)
SortByScore(results) ==
  IF results = <<>> THEN <<>>
  ELSE InsertByScore(SortByScore(SubSeq(results, 1, Len(results) - 1)),
                     results[Len(results)])

relevanceFloor == 1000

filterAndRankResults(query, searchResults) ==
  LET scored == [i \in 1..Len(searchResults) |->
                   [text |-> searchResults[i].text,
                    similarity |-> searchResults[i].similarity,
                    metadata |-> searchResults[i].metadata,
                    relevanceScore |-> relevanceScore(query, searchResults[i])]]
  IN  SortByScore(SelectSeq(scored,
        LAMBDA r : r.relevanceScore > relevanceFloor * QueryWeight(query)))

signatureLength == 200

\* replace(/\s+/g, " "): every run of whitespace becomes one blank
RECURSIVE NormalizeSpaces(_, _)
NormalizeSpaces(s, i) ==
  LET runs == {j \in i..Len(s) : IsWhitespace(s[j])}
      first == CHOOSE j \in runs : \A k \in runs : j <= k
  IN  IF runs = {} THEN SubSeq(s, i, Len(s))
      ELSE SubSeq(s, i, first - 1) \o <<" ">>
           \o NormalizeSpaces(s, RunEnd(s, first) + 1)

\* text.toLowerCase().substring(0, 200).replace(/\s+/g, " ")
contentSignature(text) ==
  NormalizeSpaces(SubSeq(ToLowerCase(text), 1, Min(Len(text), signatureLength)), 1)

\* result.metadata?.filename || "unknown"
DocumentKey(result) ==
  IF result.metadata.filename \in {Undefined, ""} THEN "unknown"
  ELSE result.metadata.filename

\* a selection that forgets which documents it has taken from
RECURSIVE SelectFrom_AnyDocument(_, _, _, _, _, _)
SelectFrom_AnyDocument(searchResults, maxChunks, i, selected, seenContent, seenDocuments) ==
  IF i > Len(searchResults) \/ Len(selected) >= maxChunks THEN selected
  ELSE IF contentSignature(searchResults[i].text) \in seenContent
       THEN SelectFrom_AnyDocument(searchResults, maxChunks, i + 1, selected,
                                   seenContent, seenDocuments)
       ELSE SelectFrom_AnyDocument(searchResults, maxChunks, i + 1,
                       Append(selected, searchResults[i]),
                       seenContent \cup {contentSignature(searchResults[i].text)},
                       seenDocuments)

RECURSIVE SelectFrom(_, _, _, _, _, _)
SelectFrom(searchResults, maxChunks, i, selectedChunks, seenContent, seenDocuments) ==
  IF i > Len(searchResults) \/ Len(selectedChunks) >= maxChunks THEN selectedChunks
  ELSE IF \/ contentSignature(searchResults[i].text) \in seenContent
          \/ DocumentKey(searchResults[i]) \in seenDocuments
       THEN SelectFrom(searchResults, maxChunks, i + 1, selectedChunks,
                       seenContent, seenDocuments)
       ELSE SelectFrom(searchResults, maxChunks, i + 1,
                       Append(selectedChunks, searchResults[i]),
                       seenContent \cup {contentSignature(searchResults[i].text)},
                       seenDocuments \cup {DocumentKey(searchResults[i])})

selectDistinctChunks(searchResults, maxChunks) ==
  SelectFrom(searchResults, maxChunks, 1, <<>>, {}, {})

(***************************************************************************)
(* selectDistinctChunks on its own: ranked lists over a pool of results    *)
(* whose texts share prefixes and whose filenames repeat or are missing.   *)
(***************************************************************************)
LongPrefix == [i \in 1..signatureLength |-> "a"]

Txt_Revenue == <<"R", "e", "v", "e", "n", "u", "e", ":", " ", "$", "2", ",", "5", "0",
    "0", ",", "0", "0", "0">>

Txt_revenue_spaced == <<"r", "e", "v", "e", "n", "u", "e", ":", " ", " ", "$", "2", ",", "5",
    "0", "0", ",", "0", "0", "0">>

SelectTexts ==
  {LongPrefix \o <<"b">>, LongPrefix \o <<"c">>, Txt_Revenue, Txt_revenue_spaced}

SelectResults ==
  {Result(text, 5000, filename) :
     text \in SelectTexts, filename \in {"a.pdf", "b.pdf", Undefined}}

MaxResults == 3

ResultLists(pool, n) == UNION {[1..k -> pool] : k \in 0..n}

SelectCall ==
  /\ ledger.ops = 0
  /\ \E searchResults \in ResultLists(SelectResults, MaxResults), maxChunks \in {1, 2, 5} :
       last' = [op |-> "selectDistinctChunks", searchResults |-> searchResults,
                maxChunks |-> maxChunks,
                chunks |-> selectDistinctChunks(searchResults, maxChunks)]
  /\ ledger' = NewLedger(1, <<>>)
  /\ UNCHANGED <<documents, snapshot, queryCache, embeddingCache, now>>

SpecSelect == Idle /\ [][SelectCall]_vars

\* the positions of the input that a selection took, in order
Taken(searchResults, chunks, f) ==
  /\ \A k \in 1..Len(chunks) : searchResults[f[k]] = chunks[k]
  /\ \A k \in 1..(Len(chunks) - 1) : f[k] < f[k + 1]

\* position i was passed over for a reason the selection allows
SkipExplained(searchResults, maxChunks, f, i) ==
  LET before == {k \in DOMAIN f : f[k] < i}
  IN  \/ Cardinality(before) >= maxChunks
      \/ \E k \in before :
           \/ DocumentKey(searchResults[f[k]]) = DocumentKey(searchResults[i])
           \/ contentSignature(searchResults[f[k]].text)
                = contentSignature(searchResults[i].text)

\* C17: selectDistinctChunks with maxChunks = N returns at most N chunks, in
\* the order of the input list, no two with the same source filename and no
\* two with the same normalized 200-character text prefix; an input chunk is
\* left out only because an earlier selected chunk has its filename or its
\* prefix, or because N chunks were already selected.
C17_SelectsDistinctInOrder ==
  last.op = "selectDistinctChunks" =>
    LET chunks == last.chunks
        searchResults == last.searchResults
    IN  /\ Len(chunks) <= last.maxChunks
        /\ \A j, k \in 1..Len(chunks) :
             j # k => /\ DocumentKey(chunks[j]) # DocumentKey(chunks[k])
                      /\ contentSignature(chunks[j].text) # contentSignature(chunks[k].text)
        /\ \E f \in [1..Len(chunks) -> 1..Len(searchResults)] :
             /\ Taken(searchResults, chunks, f)
             /\ \A i \in 1..Len(searchResults) :
                  (\A k \in DOMAIN f : f[k] # i)
                    => SkipExplained(searchResults, last.maxChunks, f, i)

\* a list of three whose second result is passed over for the first's
\* filename, and whose third is taken
C17_Witness ==
  /\ last.op = "selectDistinctChunks"
  /\ Len(last.searchResults) = 3
  /\ last.maxChunks = 5
  /\ Len(last.chunks) = 2
  /\ last.chunks = <<last.searchResults[1], last.searchResults[3]>>
  /\ DocumentKey(last.searchResults[2]) = DocumentKey(last.searchResults[1])
  /\ last.searchResults[2].text # last.searchResults[1].text

(***************************************************************************)
(* truncateContextSensibly on its own.                                     *)
(***************************************************************************)
documentSeparator == <<NL, "-", "-", "-", NL>>

\* context.split(documentSeparator), from position i on
RECURSIVE SplitDocumentsFrom(_, _)
SplitDocumentsFrom(context, i) ==
  LET n == Len(documentSeparator)
      hits == {j \in i..(Len(context) - n + 1) :
                 SubSeq(context, j, j + n - 1) = documentSeparator}
      first == CHOOSE j \in hits : \A k \in hits : j <= k
  IN  IF hits = {} THEN <<SubSeq(context, i, Len(context))>>
      ELSE <<SubSeq(context, i, first - 1)>> \o SplitDocumentsFrom(context, first + n)

minRemainingSpace == 100

RECURSIVE TruncateFrom(_, _, _, _)
TruncateFrom(docs, i, truncatedContext, maxLength) ==
  IF i > Len(docs) THEN truncatedContext
  ELSE LET doc == docs[i]
           docWithSeparator == IF truncatedContext # <<>>
                               THEN documentSeparator \o doc ELSE doc
           currentLength == Len(truncatedContext)
           remainingSpace == maxLength - currentLength
       IN  IF currentLength + Len(docWithSeparator) <= maxLength
           THEN TruncateFrom(docs, i + 1, truncatedContext \o docWithSeparator, maxLength)
           ELSE IF remainingSpace > minRemainingSpace
                THEN truncatedContext \o documentSeparator
                     \o SubSeq(doc, 1, Min(Len(doc),
                                           remainingSpace - Len(documentSeparator)))
                     \o <<".", ".", ".">>
                ELSE truncatedContext

truncateContextSensibly(context, maxLength) ==
  IF Len(context) <= maxLength THEN context
  ELSE TruncateFrom(SplitDocumentsFrom(context, 1), 1, <<>>, maxLength)

DocumentLengths == {40, 110, 160}

MaxContextDocs == 3

RECURSIVE JoinDocuments(_)
JoinDocuments(lengths) ==
  IF lengths = <<>> THEN <<>>
  ELSE IF Len(lengths) = 1 THEN [i \in 1..lengths[1] |-> "d"]
  ELSE JoinDocuments(SubSeq(lengths, 1, Len(lengths) - 1)) \o documentSeparator
       \o [i \in 1..lengths[Len(lengths)] |-> "d"]

ContextPool ==
  {JoinDocuments(lengths) :
     lengths \in UNION {[1..k -> DocumentLengths] : k \in 1..MaxContextDocs}}

MaxLengthPool == {30, 100, 150, 200, 300, 4000}

TruncateCall ==
  /\ ledger.ops = 0
  /\ \E context \in ContextPool, maxLength \in MaxLengthPool :
       last' = [op |-> "truncateContextSensibly", context |-> context,
                maxLength |-> maxLength,
                truncated |-> truncateContextSensibly(context, maxLength)]
  /\ ledger' = NewLedger(1, <<>>)
  /\ UNCHANGED <<documents, snapshot, queryCache, embeddingCache, now>>

SpecTruncate == Idle /\ [][TruncateCall]_vars

\* C18: the context truncateContextSensibly returns is never longer than
\* maxContextLength.
C18_TruncatedWithinMaxLength ==
  last.op = "truncateContextSensibly" => Len(last.truncated) <= last.maxLength

(***************************************************************************)
(* generateFallbackAnswer: the templated answer built without the          *)
(* text-generation provider.                                               *)
(***************************************************************************)
\* the last index of the run of characters of a class that starts at i
\* (i - 1 when s[i] is not of the class)
ClassRunEnd(s, i, class) ==
  LET stops == {j \in i..Len(s) : s[j] \notin class}
  IN  IF stops = {} THEN Len(s)
      ELSE (CHOOSE j \in stops : \A k \in stops : j <= k) - 1

\* /\$[\d,]+\.?\d*/ matched at i: the index of its last character, or 0
FinancialEnd(s, i) ==
  IF i > Len(s) \/ s[i] # "$" THEN 0
  ELSE LET amountEnd == ClassRunEnd(s, i + 1, Digits \cup {","})
       IN  IF amountEnd = i THEN 0
           ELSE IF amountEnd < Len(s) /\ s[amountEnd + 1] = "."
                THEN ClassRunEnd(s, amountEnd + 2, Digits)
                ELSE amountEnd

WordChars == UpperSet \cup LowerSet \cup Digits \cup {"_"}

\* \b between positions i - 1 and i
WordBoundary(s, i) ==
  ((i > 1 /\ i - 1 <= Len(s)) /\ s[i - 1] \in WordChars)
    # (i <= Len(s) /\ s[i] \in WordChars)

LocalChars == UpperSet \cup LowerSet \cup Digits \cup {".", "_", "%", "+", "-"}

DomainChars == UpperSet \cup LowerSet \cup Digits \cup {".", "-"}

SuffixChars == UpperSet \cup LowerSet \cup {"|"}

\* /\b[A-Za-z0-9._%+-]+@[A-Za-z0-9.-]+\.[A-Z|a-z]{2,}\b/ matched at i: the
\* index of its last character, or 0.  The suffix is taken as the whole run
\* of suffix characters after the last dot that a domain character precedes.
EmailEnd(s, i) ==
  IF i > Len(s) \/ s[i] \notin LocalChars \/ ~WordBoundary(s, i) THEN 0
  ELSE LET localEnd == ClassRunEnd(s, i, LocalChars)
       IN  IF localEnd >= Len(s) \/ s[localEnd + 1] # "@" THEN 0
           ELSE LET domainEnd == ClassRunEnd(s, localEnd + 2, DomainChars)
                    dots == {d \in (localEnd + 3)..domainEnd :
                               /\ s[d] = "."
                               /\ ClassRunEnd(s, d + 1, SuffixChars) >= d + 2
                               /\ WordBoundary(s, ClassRunEnd(s, d + 1, SuffixChars) + 1)}
                IN  IF dots = {} THEN 0
                    ELSE ClassRunEnd(s, (CHOOSE d \in dots : \A e \in dots : e <= d) + 1,
                                     SuffixChars)

\* the position after an optional character of a class at i
SkipOptional(s, i, class) == IF i <= Len(s) /\ s[i] \in class THEN i + 1 ELSE i

\* the position after exactly n digits at i, or 0
SkipDigits(s, i, n) ==
  IF i > 0 /\ i + n - 1 <= Len(s) /\ \A k \in i..(i + n - 1) : s[k] \in Digits
  THEN i + n ELSE 0

PhoneSeparators == {"-", ".", " ", NL}

\* /\(?\d{3}\)?[-.\s]?\d{3}[-.\s]?\d{4}/ matched at i: the index of its last
\* character, or 0
PhoneEnd(s, i) ==
  LET area == SkipDigits(s, SkipOptional(s, i, {"("}), 3)
      exchange == IF area = 0 THEN 0
                  ELSE SkipDigits(s, SkipOptional(s, SkipOptional(s, area, {")"}),
                                                  PhoneSeparators), 3)
      line == IF exchange = 0 THEN 0
              ELSE SkipDigits(s, SkipOptional(s, exchange, PhoneSeparators), 4)
  IN  IF i > Len(s) \/ line = 0 THEN 0 ELSE line - 1

ContactEnd(s, i) == IF EmailEnd(s, i) # 0 THEN EmailEnd(s, i) ELSE PhoneEnd(s, i)

\* the regular expression of a kind of information, matched at i
MatchEnd(kind, s, i) ==
  IF kind = "financial" THEN FinancialEnd(s, i) ELSE ContactEnd(s, i)

\* s.match(/.../g) || []: the matches from left to right, without overlap
RECURSIVE MatchesFrom(_, _, _)
MatchesFrom(kind, s, i) ==
  LET starts == {j \in i..Len(s) : MatchEnd(kind, s, j) # 0}
      first == CHOOSE j \in starts : \A k \in starts : j <= k
  IN  IF starts = {} THEN <<>>
      ELSE <<SubSeq(s, first, MatchEnd(kind, s, first))>>
           \o MatchesFrom(kind, s, MatchEnd(kind, s, first) + 1)

\* array.join(separator) of strings
RECURSIVE JoinWith(_, _)
JoinWith(parts, separator) ==
  IF parts = <<>> THEN <<>>
  ELSE IF Len(parts) = 1 THEN parts[1]
  ELSE JoinWith(SubSeq(parts, 1, Len(parts) - 1), separator) \o separator
       \o parts[Len(parts)]

DigitChars == <<"0", "1", "2", "3", "4", "5", "6", "7", "8", "9">>

\* String(n) of a natural number
RECURSIVE NumberChars(_)
NumberChars(n) ==
  IF n < 10 THEN <<DigitChars[n + 1]>>
  ELSE NumberChars(n \div 10) \o <<DigitChars[(n % 10) + 1]>>

\* the characters of the filenames the model uses
FilenameChars(filename) ==
  CASE filename = "a.pdf" -> <<"a", ".", "p", "d", "f">>
    [] filename = "b.pdf" -> <<"b", ".", "p", "d", "f">>
    [] filename = "f1" -> <<"f", "1">>
    [] filename = "f2" -> <<"f", "2">>
    [] filename = "f1.pdf" -> <<"f", "1", ".", "p", "d", "f">>
    [] filename = "f2.pdf" -> <<"f", "2", ".", "p", "d", "f">>
    [] filename = "revenue.pdf" -> <<"r", "e", "v", "e", "n", "u", "e", ".", "p", "d", "f">>
    [] OTHER -> <<>>

\* result.metadata?.filename || fallback
FilenameOr(result, fallback) ==
  IF result.metadata.filename \in {Undefined, ""} THEN fallback
  ELSE FilenameChars(result.metadata.filename)

Str_Unknown == <<"U", "n", "k", "n", "o", "w", "n">>

Str_Document == <<"D", "o", "c", "u", "m", "e", "n", "t", " ">>

\* `${index + 1}. ${item}` joined by newlines
NumberedList(items) ==
  JoinWith([i \in 1..Len(items) |-> NumberChars(i) \o <<".", " ">> \o items[i]],
           <<NL>>)

SourceDocuments(searchResults) ==
  JoinWith([i \in 1..Len(searchResults) |-> FilenameOr(searchResults[i], Str_Unknown)],
           <<",", " ">>)

JoinedTexts(searchResults) ==
  JoinWith([i \in 1..Len(searchResults) |-> searchResults[i].text], <<" ">>)

Str_financial == <<"f", "i", "n", "a", "n", "c", "i", "a", "l">>

Str_revenue == <<"r", "e", "v", "e", "n", "u", "e">>

Str_profit == <<"p", "r", "o", "f", "i", "t">>

Str_contact == <<"c", "o", "n", "t", "a", "c", "t">>

Str_email == <<"e", "m", "a", "i", "l">>

Str_phone == <<"p", "h", "o", "n", "e">>

FinancialHead == <<"B", "a", "s", "e", "d", " ", "o", "n", " ", "t", "h", "e", " ", "d",
    "o", "c", "u", "m", "e", "n", "t", "s", ",", " ", "I", " ", "f", "o",
    "u", "n", "d", " ", "t", "h", "e", " ", "f", "o", "l", "l", "o", "w",
    "i", "n", "g", " ", "f", "i", "n", "a", "n", "c", "i", "a", "l", " ",
    "i", "n", "f", "o", "r", "m", "a", "t", "i", "o", "n", ":", "\n", "\n",
    "*", "*", "F", "i", "n", "a", "n", "c", "i", "a", "l", " ", "F", "i",
    "g", "u", "r", "e", "s", " ", "F", "o", "u", "n", "d", ":", "*", "*",
    "\n">>

FinancialTail == <<"\n", "\n", "P", "l", "e", "a", "s", "e", " ", "r", "e", "v", "i", "e",
    "w", " ", "t", "h", "e", " ", "s", "p", "e", "c", "i", "f", "i", "c",
    " ", "d", "o", "c", "u", "m", "e", "n", "t", "s", " ", "f", "o", "r",
    " ", "c", "o", "m", "p", "l", "e", "t", "e", " ", "f", "i", "n", "a",
    "n", "c", "i", "a", "l", " ", "d", "e", "t", "a", "i", "l", "s", " ",
    "a", "n", "d", " ", "c", "o", "n", "t", "e", "x", "t", ".">>

ContactHead == <<"B", "a", "s", "e", "d", " ", "o", "n", " ", "t", "h", "e", " ", "d",
    "o", "c", "u", "m", "e", "n", "t", "s", ",", " ", "I", " ", "f", "o",
    "u", "n", "d", " ", "t", "h", "e", " ", "f", "o", "l", "l", "o", "w",
    "i", "n", "g", " ", "c", "o", "n", "t", "a", "c", "t", " ", "i", "n",
    "f", "o", "r", "m", "a", "t", "i", "o", "n", ":", "\n", "\n", "*", "*",
    "C", "o", "n", "t", "a", "c", "t", " ", "D", "e", "t", "a", "i", "l",
    "s", " ", "F", "o", "u", "n", "d", ":", "*", "*", "\n">>

ContactTail == <<"\n", "\n", "P", "l", "e", "a", "s", "e", " ", "c", "h", "e", "c", "k",
    " ", "t", "h", "e", " ", "d", "o", "c", "u", "m", "e", "n", "t", "s",
    " ", "f", "o", "r", " ", "c", "o", "m", "p", "l", "e", "t", "e", " ",
    "c", "o", "n", "t", "a", "c", "t", " ", "d", "e", "t", "a", "i", "l",
    "s", " ", "a", "n", "d", " ", "c", "o", "n", "t", "e", "x", "t", ".">>

GenericHead == <<"B", "a", "s", "e", "d", " ", "o", "n", " ", "t", "h", "e", " ", "u",
    "p", "l", "o", "a", "d", "e", "d", " ", "d", "o", "c", "u", "m", "e",
    "n", "t", "s", ",", " ", "I", " ", "f", "o", "u", "n", "d", " ", "r",
    "e", "l", "e", "v", "a", "n", "t", " ", "i", "n", "f", "o", "r", "m",
    "a", "t", "i", "o", "n", " ", "r", "e", "l", "a", "t", "e", "d", " ",
    "t", "o", " ", "y", "o", "u", "r", " ", "q", "u", "e", "r", "y", ":",
    "\n", "\n">>

GenericSummary == <<"\n", "\n", "*", "*", "S", "u", "m", "m", "a", "r", "y", ":", "*", "*",
    " ", "T", "h", "e", " ", "d", "o", "c", "u", "m", "e", "n", "t", "s",
    " ", "c", "o", "n", "t", "a", "i", "n", " ", "i", "n", "f", "o", "r",
    "m", "a", "t", "i", "o", "n", " ", "t", "h", "a", "t", " ", "m", "a",
    "y", " ", "b", "e", " ", "r", "e", "l", "e", "v", "a", "n", "t", " ",
    "t", "o", " ", "y", "o", "u", "r", " ", "q", "u", "e", "s", "t", "i",
    "o", "n", ".", " ", "P", "l", "e", "a", "s", "e", " ", "r", "e", "v",
    "i", "e", "w", " ", "t", "h", "e", " ", "f", "u", "l", "l", " ", "d",
    "o", "c", "u", "m", "e", "n", "t", "s", " ", "f", "o", "r", " ", "c",
    "o", "m", "p", "l", "e", "t", "e", " ", "d", "e", "t", "a", "i", "l",
    "s", " ", "a", "n", "d", " ", "c", "o", "n", "t", "e", "x", "t", ".">>

SourceDocumentsLabel == <<"\n", "\n", "*", "*", "S", "o", "u", "r", "c", "e", " ", "D", "o", "c",
    "u", "m", "e", "n", "t", "s", ":", "*", "*", " ">>

excerptLength == 300

\* `**Source: ${source}**\n${text}...` of the first three results
RelevantText(searchResults) ==
  JoinWith([i \in 1..Min(3, Len(searchResults)) |->
              <<"*", "*", "S", "o", "u", "r", "c", "e", ":", " ">>
              \o FilenameOr(searchResults[i], Str_Document \o NumberChars(i))
              \o <<"*", "*", NL>>
              \o SubSeq(searchResults[i].text, 1,
                        Min(excerptLength, Len(searchResults[i].text)))
              \o <<".", ".", ".">>],
           <<NL, NL>>)

generateFallbackAnswer(query, searchResults) ==
  LET queryLower == ToLowerCase(query)
      financialInfo == MatchesFrom("financial", JoinedTexts(searchResults), 1)
      contactInfo == MatchesFrom("contact", JoinedTexts(searchResults), 1)
  IN  IF /\ \/ Includes(queryLower, Str_financial)
            \/ Includes(queryLower, Str_revenue)
            \/ Includes(queryLower, Str_profit)
         /\ Len(financialInfo) > 0
      THEN FinancialHead \o NumberedList(financialInfo) \o SourceDocumentsLabel
           \o SourceDocuments(searchResults) \o FinancialTail
      ELSE IF /\ \/ Includes(queryLower, Str_contact)
                 \/ Includes(queryLower, Str_email)
                 \/ Includes(queryLower, Str_phone)
              /\ Len(contactInfo) > 0
      THEN ContactHead \o NumberedList(contactInfo) \o SourceDocumentsLabel
           \o SourceDocuments(searchResults) \o ContactTail
      ELSE GenericHead \o RelevantText(searchResults) \o GenericSummary
           \o SourceDocumentsLabel \o SourceDocuments(searchResults)

(***************************************************************************)
(* generateAnswerFromDocuments.  The provider is an outcome ("ok", a       *)
(* failed key fetch, a failed generation) and, when it answers, a text.    *)
(***************************************************************************)
\* answer.split("\n"), from position i on
RECURSIVE SplitLinesFrom(_, _)
SplitLinesFrom(answer, i) ==
  LET breaks == {j \in i..Len(answer) : answer[j] = NL}
      first == CHOOSE j \in breaks : \A k \in breaks : j <= k
  IN  IF breaks = {} THEN <<SubSeq(answer, i, Len(answer))>>
      ELSE <<SubSeq(answer, i, first - 1)>> \o SplitLinesFrom(answer, first + 1)

Str_AnswerHead == <<"#", "#", " ", "A", "n", "s", "w", "e", "r", "\n", "\n">>

Str_SourcesLabel == <<"\n", "\n", "*", "*", "S", "o", "u", "r", "c", "e", "s", ":", "*", "*",
    " ">>

Str_Note == <<"\n", "\n", "*", "N", "o", "t", "e", ":", " ", "T", "h", "i", "s", " ",
    "r", "e", "s", "p", "o", "n", "s", "e", " ", "m", "a", "y", " ", "n",
    "o", "t", " ", "f", "u", "l", "l", "y", " ", "a", "d", "d", "r", "e",
    "s", "s", " ", "a", "l", "l", " ", "a", "s", "p", "e", "c", "t", "s",
    " ", "o", "f", " ", "y", "o", "u", "r", " ", "q", "u", "e", "s", "t",
    "i", "o", "n", ".", " ", "P", "l", "e", "a", "s", "e", " ", "r", "e",
    "v", "i", "e", "w", " ", "t", "h", "e", " ", "s", "o", "u", "r", "c",
    "e", " ", "d", "o", "c", "u", "m", "e", "n", "t", "s", " ", "f", "o",
    "r", " ", "a", "d", "d", "i", "t", "i", "o", "n", "a", "l", " ", "d",
    "e", "t", "a", "i", "l", "s", ".", "*">>

Str_source == <<"s", "o", "u", "r", "c", "e", ":">>

Str_according_to == <<"a", "c", "c", "o", "r", "d", "i", "n", "g", " ", "t", "o">>

Str_based_on == <<"b", "a", "s", "e", "d", " ", "o", "n">>

\* the first step of postProcessAnswer: headings for an unformatted answer
Structured(answer) ==
  LET lines == SelectSeq(SplitLinesFrom(answer, 1), LAMBDA line : Len(TrimWs(line)) > 0)
  IN  IF /\ ~Includes(answer, <<"*", "*">>)
         /\ ~Includes(answer, <<"#">>)
         /\ Len(lines) > 1
      THEN Str_AnswerHead \o JoinWith(lines, <<NL, NL>>)
      ELSE answer

\* the second step: the sources, when the answer names none
Attributed(answer, chunks) ==
  LET answerLower == ToLowerCase(answer)
      hasSourceAttribution == \/ Includes(answerLower, Str_source)
                              \/ Includes(answerLower, Str_according_to)
                              \/ Includes(answerLower, Str_based_on)
  IN  IF ~hasSourceAttribution /\ Len(chunks) > 0
      THEN answer \o Str_SourcesLabel \o SourceDocuments(chunks)
      ELSE answer

postProcessAnswer(answer, query, chunks) ==
  LET attributed == Attributed(Structured(answer), chunks)
      queryWords == LongWords(query)
      covered == CountIncluded(queryWords, ToLowerCase(attributed))
  IN  \* queryCoverage < 0.3; with no query word the ratio is NaN and the
      \* comparison is false
      IF Len(queryWords) > 0 /\ 10 * covered < 3 * Len(queryWords)
      THEN Str_AnswerHead \o attributed \o Str_Note
      ELSE attributed

Str_couldnt_find == <<"I", " ", "c", "o", "u", "l", "d", "n", "'", "t", " ", "f", "i", "n",
    "d">>

Str_not_found == <<"n", "o", "t", " ", "f", "o", "u", "n", "d">>

shortAnswerLength == 50

SumSimilarity(results) ==
  LET RECURSIVE Sum(_)
      Sum(i) == IF i = 0 THEN 0 ELSE Sum(i - 1) + results[i].similarity
  IN  Sum(Len(results))

\* the unclamped confidence of an answer, in units of 1 / unit
RawConfidence(query, results, answer) ==
  LET weight == QueryWeight(query)
      unit == Scale * Len(results) * weight
      hasSpecifics == \E i \in 1..Len(answer) : answer[i] \in Digits
      queryWordMatches == CountIncluded(LongWords(query), ToLowerCase(answer))
  IN  [unit |-> unit,
       value |-> SumSimilarity(results) * weight
                 + (IF hasSpecifics THEN unit \div 10 ELSE 0)
                 + queryWordMatches * 1000 * Len(results)
                 - (IF Len(answer) < shortAnswerLength THEN 2 * (unit \div 10) ELSE 0)
                 - (IF \/ Includes(answer, Str_couldnt_find)
                       \/ Includes(answer, Str_not_found)
                    THEN 3 * (unit \div 10) ELSE 0)]

\* a confidence that is not brought into [0.1, 0.95]
calculateAnswerConfidence_Unclamped(query, results, answer) ==
  RawConfidence(query, results, answer)

\* Math.min(0.95, Math.max(0.1, confidence))
calculateAnswerConfidence(query, results, answer) ==
  LET raw == RawConfidence(query, results, answer)
  IN  [unit |-> raw.unit,
       value |-> Min(95 * (raw.unit \div 100), Max(raw.unit \div 10, raw.value))]

Str_NoInformation == <<"I", " ", "c", "o", "u", "l", "d", "n", "'", "t", " ", "f", "i", "n",
    "d", " ", "a", "n", "y", " ", "r", "e", "l", "e", "v", "a", "n", "t",
    " ", "i", "n", "f", "o", "r", "m", "a", "t", "i", "o", "n", " ", "i",
    "n", " ", "t", "h", "e", " ", "u", "p", "l", "o", "a", "d", "e", "d",
    " ", "d", "o", "c", "u", "m", "e", "n", "t", "s", " ", "t", "o", " ",
    "a", "n", "s", "w", "e", "r", " ", "y", "o", "u", "r", " ", "q", "u",
    "e", "s", "t", "i", "o", "n", ".">>

maxDistinctChunks == 5

fallbackConfidence == 30

\* distinctChunks.map((result) => result.metadata?.filename || "Unknown document")
SourcesOf(chunks) ==
  [i \in 1..Len(chunks) |->
     IF chunks[i].metadata.filename \in {Undefined, ""} THEN "Unknown document"
     ELSE chunks[i].metadata.filename]

\* what the call gives back: confidence is in hundredths
Answered(answer, sources, confidence) ==
  [answer |-> answer, sources |-> sources, confidence |-> confidence, threw |-> FALSE]

\* a synthesizer whose fallback reads the ranked results
generateAnswerFromDocuments_RankedFallback(query, searchResults, provider, content) ==
  LET filteredResults == filterAndRankResults(query, searchResults)
      distinctChunks == selectDistinctChunks(filteredResults, maxDistinctChunks)
      answer == postProcessAnswer(content, query, distinctChunks)
      confidence == calculateAnswerConfidence(query, filteredResults, answer)
  IN  IF Len(searchResults) = 0 \/ Len(filteredResults) = 0
      THEN Answered(Str_NoInformation, <<>>, 0)
      ELSE IF provider = "ok"
      THEN Answered(TrimWs(answer), SourcesOf(distinctChunks),
                    RoundDiv(confidence.value * 100, confidence.unit))
      ELSE Answered(generateFallbackAnswer(query, filteredResults),
                    SourcesOf(distinctChunks), fallbackConfidence)

generateAnswerFromDocuments(query, searchResults, provider, content) ==
  LET filteredResults == filterAndRankResults(query, searchResults)
      distinctChunks == selectDistinctChunks(filteredResults, maxDistinctChunks)
      answer == postProcessAnswer(content, query, distinctChunks)
      confidence == calculateAnswerConfidence(query, filteredResults, answer)
  IN  IF Len(searchResults) = 0 \/ Len(filteredResults) = 0
      THEN Answered(Str_NoInformation, <<>>, 0)
      ELSE IF provider = "ok"
      THEN Answered(TrimWs(answer), SourcesOf(distinctChunks),
                    RoundDiv(confidence.value * 100, confidence.unit))
      ELSE Answered(generateFallbackAnswer(query, searchResults),
                    SourcesOf(distinctChunks), fallbackConfidence)

(***************************************************************************)
(* generateAnswerFromDocuments on its own: queries of the three kinds,     *)
(* results above and below the relevance floor, and a provider that        *)
(* answers, or fails at the key fetch or at the generation call.           *)
(***************************************************************************)
Q_revenue == <<"W", "h", "a", "t", " ", "i", "s", " ", "t", "h", "e", " ", "r", "e",
    "v", "e", "n", "u", "e", "?">>

Q_contact == <<"c", "o", "n", "t", "a", "c", "t", " ", "e", "m", "a", "i", "l">>

Q_other == <<"t", "e", "l", "l", " ", "m", "e", " ", "m", "o", "r", "e">>

QueryPool == {Q_revenue, Q_contact, Q_other}

Txt_Profit == <<"P", "r", "o", "f", "i", "t", ":", " ", "$", "9">>

Txt_Contact == <<"m", "a", "i", "l", " ", "b", "o", "b", "@", "x", ".", "i", "o", " ",
    "o", "r", " ", "5", "5", "5", "-", "1", "2", "3", "-", "4", "5", "6",
    "7">>

AnswerResults ==
  {Result(Txt_Revenue, 5000, "f1.pdf"),
   Result(Txt_Profit, 500, "f2.pdf"),
   Result(LongPrefix \o <<"b">>, 3000, "f1.pdf"),
   Result(Txt_Contact, 9000, Undefined),
   Result(LongPrefix \o <<"c">>, 800, "b.pdf")}

MaxAnswerResults == 2

Ans_ok == <<"o", "k">>

Ans_none == <<"I", " ", "c", "o", "u", "l", "d", "n", "'", "t", " ", "f", "i", "n",
    "d", " ", "i", "t">>

Ans_lines == <<"T", "h", "e", " ", "r", "e", "v", "e", "n", "u", "e", " ", "w", "a",
    "s", " ", "$", "2", ",", "5", "0", "0", ",", "0", "0", "0", "\n", "f",
    "o", "r", " ", "t", "h", "e", " ", "y", "e", "a", "r", " ">>

Ans_long == <<"*", "*", "R", "e", "v", "e", "n", "u", "e", "*", "*", ":", " ", "a",
    "c", "c", "o", "r", "d", "i", "n", "g", " ", "t", "o", " ", "f", "1",
    ".", "p", "d", "f", " ", "t", "h", "e", " ", "r", "e", "v", "e", "n",
    "u", "e", " ", "i", "s", " ", "$", "2", ",", "5", "0", "0", ",", "0",
    "0", "0", ".">>

ContentPool == {Ans_ok, Ans_none, Ans_lines, Ans_long}

\* the provider's outcomes: an answer, or a failure and no content
ProviderPool ==
  {<<"ok", content>> : content \in ContentPool}
    \cup {<<"keyfail", <<>>>>, <<"genfail", <<>>>>}

AnswerCall ==
  /\ ledger.ops = 0
  /\ \E query \in QueryPool, searchResults \in ResultLists(AnswerResults, MaxAnswerResults),
        provider \in ProviderPool :
       last' = [op |-> "generateAnswerFromDocuments", query |-> query,
                searchResults |-> searchResults, provider |-> provider[1],
                content |-> provider[2],
                result |-> generateAnswerFromDocuments(query, searchResults,
                                                       provider[1], provider[2])]
  /\ ledger' = NewLedger(1, <<>>)
  /\ UNCHANGED <<documents, snapshot, queryCache, embeddingCache, now>>

SpecAnswer == Idle /\ [][AnswerCall]_vars

AnswerGiven == last.op = "generateAnswerFromDocuments"

\* no result of the call's list is above the relevance floor
NothingRelevant ==
  \A i \in 1..Len(last.searchResults) :
    relevanceScore(last.query, last.searchResults[i])
      <= relevanceFloor * QueryWeight(last.query)

\* C16: generateAnswerFromDocuments returns confidence 0, the
\* no-information answer and no sources when the result list is empty or no
\* result is above the relevance floor; otherwise, whether the provider
\* answered or the fallback was used, the confidence is within [0.10, 0.95].
C16_ConfidenceZeroOrWithinRange ==
  AnswerGiven =>
    IF NothingRelevant
    THEN /\ last.result.confidence = 0
         /\ last.result.answer = Str_NoInformation
         /\ last.result.sources = <<>>
    ELSE /\ last.result.confidence >= 10
         /\ last.result.confidence <= 95

\* the unclamped confidence of the last call's answer
LastRawConfidence ==
  LET filtered == filterAndRankResults(last.query, last.searchResults)
  IN  RawConfidence(last.query, filtered,
                    postProcessAnswer(last.content, last.query,
                                      selectDistinctChunks(filtered, maxDistinctChunks)))

\* the provider answered and the unclamped confidence was above 0.95
C16_Witness ==
  /\ AnswerGiven
  /\ last.provider = "ok"
  /\ ~NothingRelevant
  /\ LastRawConfidence.value * 100 > 95 * LastRawConfidence.unit
  /\ last.result.confidence = 95

StartsWith(s, prefix) ==
  Len(s) >= Len(prefix) /\ SubSeq(s, 1, Len(prefix)) = prefix

\* the query asks for information of a kind
Asks(query, kind) ==
  LET queryLower == ToLowerCase(query)
  IN  IF kind = "financial"
      THEN \/ Includes(queryLower, Str_financial)
           \/ Includes(queryLower, Str_revenue)
           \/ Includes(queryLower, Str_profit)
      ELSE \/ Includes(queryLower, Str_contact)
           \/ Includes(queryLower, Str_email)
           \/ Includes(queryLower, Str_phone)

\* the figures or contact patterns found in each result's own text
Found(kind, searchResults) ==
  UNION {SeqToSet(MatchesFrom(kind, searchResults[i].text, 1)) :
           i \in 1..Len(searchResults)}

\* the provider was called and failed
ProviderFailed ==
  AnswerGiven /\ last.provider \in {"keyfail", "genfail"} /\ ~NothingRelevant

RECURSIVE CountQueryMatchesFrom(_, _, _)
CountQueryMatchesFrom(text, query, i) ==
  LET optional == Len(query) >= 2 /\ query[Len(query)] = "?"
      stem == IF optional THEN SubSeq(query, 1, Len(query) - 2) ELSE query
      starts == {j \in i..(Len(text) - Len(stem) + 1) :
                   SubSeq(text, j, j + Len(stem) - 1) = stem}
      first == CHOOSE j \in starts : \A k \in starts : j <= k
      after == first + Len(stem)
      end == IF optional /\ after <= Len(text) /\ text[after] = query[Len(query) - 1]
             THEN after + 1 ELSE after
  IN  IF starts = {} \/ stem = <<>> THEN 0
      ELSE 1 + CountQueryMatchesFrom(text, query, end)

calculateExactMatchScore(query, text) ==
  IF Includes(ToLowerCase(text), ToLowerCase(query))
  THEN Min(Scale, CountQueryMatchesFrom(ToLowerCase(text), ToLowerCase(query), 1) * 4000)
  ELSE 0

CountEqual(textWords, word) ==
  Cardinality({i \in 1..Len(textWords) : textWords[i] = word})

CountPartial(textWords, word) ==
  Cardinality({i \in 1..Len(textWords) : Includes(textWords[i], word)})

\* the score one query word adds, and whether it matched
WordScore(textWords, word) ==
  IF CountEqual(textWords, word) > 0
  THEN Min(5000, CountEqual(textWords, word) * 2000)
  ELSE IF CountPartial(textWords, word) > 0
  THEN Min(3000, CountPartial(textWords, word) * 1000)
  ELSE 0

calculateKeywordScore(query, text) ==
  LET queryWords == SelectSeq(SplitWs(ToLowerCase(query)), LAMBDA word : Len(word) > 1)
      textWords == SplitWs(ToLowerCase(text))
      RECURSIVE Sum(_)
      Sum(i) == IF i = 0 THEN 0 ELSE Sum(i - 1) + WordScore(textWords, queryWords[i])
      matchedWords == Cardinality({i \in 1..Len(queryWords) :
                                     CountPartial(textWords, queryWords[i]) > 0})
  IN  Min(Scale, Sum(Len(queryWords))
                 + (IF matchedWords = Len(queryWords) /\ Len(queryWords) > 0
                    THEN 3000 ELSE 0))

calculateMetadataScore(query, metadata) ==
  LET queryWords == SelectSeq(SplitWs(query), LAMBDA word : Len(word) > 2)
  IN  Min(Scale, 2000 * Cardinality({i \in 1..Len(queryWords) :
                                       Includes(metadata, queryWords[i])}))

\* JSON.stringify(doc.metadata) of a metadata object holding a filename
MetadataJson(metadata) ==
  <<"{", "\"", "f", "i", "l", "e", "n", "a", "m", "e", "\"", ":", "\"">> \o FilenameChars(metadata.filename)
  \o <<"\"", "}">>

\* some word of the list is part of the text
IncludesAny(text, wordList) ==
  \E i \in 1..Len(wordList) : Includes(text, wordList[i])

questionWords == <<<<"w", "h", "a", "t">>, <<"w", "h", "o">>, <<"w", "h", "e", "n">>, <<"w", "h", "e", "r", "e">>, <<"w", "h", "y">>, <<"h", "o", "w">>, <<"w", "h", "i", "c", "h">>, <<"w", "h", "o", "s", "e">>>>

FinancialQueryWords == <<<<"f", "i", "n", "a", "n", "c", "i", "a", "l">>, <<"r", "e", "v", "e", "n", "u", "e">>, <<"p", "r", "o", "f", "i", "t">>, <<"c", "o", "s", "t">>, <<"a", "m", "o", "u", "n", "t">>, <<"m", "o", "n", "e", "y">>, <<"h", "i", "g", "h", "l", "i", "g", "h", "t", "s">>>>

ExactFinancialData == <<<<"f", "i", "n", "a", "n", "c", "i", "a", "l", " ", "h", "i", "g", "h",
    "l", "i", "g", "h", "t", "s">>, <<"r", "e", "v", "e", "n", "u", "e", ":", " ", "$", "2", ".", "5", "m">>, <<"n", "e", "t", " ", "p", "r", "o", "f", "i", "t", ":", " ", "$", "4",
    "2", "5", ",", "0", "0", "0">>, <<"g", "r", "o", "s", "s", " ", "m", "a", "r", "g", "i", "n", ":", " ",
    "6", "5", "%">>, <<"o", "p", "e", "r", "a", "t", "i", "n", "g", " ", "e", "x", "p", "e",
    "n", "s", "e", "s", ":", " ", "$", "1", ".", "8", "m">>, <<"c", "a", "s", "h", " ", "p", "o", "s", "i", "t", "i", "o", "n", ":",
    " ", "$", "3", ".", "2", "m">>>>

FinancialDataPatterns == <<<<"r", "e", "v", "e", "n", "u", "e", ":", " ", "$">>, <<"n", "e", "t", " ", "p", "r", "o", "f", "i", "t", ":", " ", "$">>, <<"g", "r", "o", "s", "s", " ", "m", "a", "r", "g", "i", "n", ":">>, <<"o", "p", "e", "r", "a", "t", "i", "n", "g", " ", "e", "x", "p", "e",
    "n", "s", "e", "s", ":", " ", "$">>, <<"c", "a", "s", "h", " ", "p", "o", "s", "i", "t", "i", "o", "n", ":",
    " ", "$">>>>

FinancialTerms == <<<<"r", "e", "v", "e", "n", "u", "e">>, <<"p", "r", "o", "f", "i", "t">>, <<"c", "o", "s", "t">>, <<"$">>, <<"f", "i", "n", "a", "n", "c", "i", "a", "l">>, <<"m", "a", "r", "g", "i", "n">>>>

ProjectionTerms == <<<<"t", "a", "r", "g", "e", "t">>, <<"u", "p", "c", "o", "m", "i", "n", "g">>, <<"m", "i", "l", "e", "s", "t", "o", "n", "e">>, <<"q", "1", " ", "2", "0", "2", "5">>, <<"q", "2", " ", "2", "0", "2", "5">>, <<"q", "3", " ", "2", "0", "2", "5">>>>

ContractQueryWords == <<<<"c", "o", "n", "t", "r", "a", "c", "t">>, <<"a", "g", "r", "e", "e", "m", "e", "n", "t">>, <<"t", "e", "r", "m", "s">>>>

ContractTerms == <<<<"p", "a", "r", "t", "n", "e", "r", "s", "h", "i", "p">>, <<"a", "g", "r", "e", "e", "m", "e", "n", "t">>, <<"t", "e", "r", "m", "s">>, <<"m", "i", "l", "e", "s", "t", "o", "n", "e">>, <<"f", "u", "n", "d", "i", "n", "g">>, <<"r", "o", "u", "n", "d">>>>

ContactQueryWords == <<<<"c", "o", "n", "t", "a", "c", "t">>, <<"p", "e", "r", "s", "o", "n">>, <<"e", "m", "a", "i", "l">>, <<"p", "h", "o", "n", "e">>, <<"a", "d", "d", "r", "e", "s", "s">>, <<"j", "e", "n", "n", "i", "f", "e", "r">>, <<"m", "a", "r", "t", "i", "n", "e", "z">>, <<"c", "f", "o">>, <<"c", "h", "i", "e", "f", " ", "f", "i", "n", "a", "n", "c", "i", "a",
    "l", " ", "o", "f", "f", "i", "c", "e", "r">>>>

ContactTerms == <<<<"@">>, <<"p", "h", "o", "n", "e">>, <<"c", "o", "n", "t", "a", "c", "t">>, <<"e", "m", "a", "i", "l">>, <<"j", "e", "n", "n", "i", "f", "e", "r", " ", "m", "a", "r", "t", "i",
    "n", "e", "z">>, <<"c", "h", "i", "e", "f", " ", "f", "i", "n", "a", "n", "c", "i", "a",
    "l", " ", "o", "f", "f", "i", "c", "e", "r">>, <<"t", "e", "c", "h", "s", "t", "a", "r", "t", "u", "p", " ", "i", "n",
    "c">>, <<"b", "e", "s", "t", " ", "r", "e", "g", "a", "r", "d", "s">>>>

BusinessQueryWords == <<<<"b", "u", "s", "i", "n", "e", "s", "s">>, <<"c", "o", "m", "p", "a", "n", "y">>, <<"o", "r", "g", "a", "n", "i", "z", "a", "t", "i", "o", "n">>>>

BusinessTerms == <<<<"c", "o", "m", "p", "a", "n", "y">>, <<"b", "u", "s", "i", "n", "e", "s", "s">>, <<"t", "e", "a", "m">>, <<"e", "x", "p", "a", "n", "s", "i", "o", "n">>>>

UpdateQueryWords == <<<<"u", "p", "d", "a", "t", "e">>, <<"p", "r", "o", "g", "r", "e", "s", "s">>, <<"s", "t", "a", "t", "u", "s">>>>

UpdateTerms == <<<<"u", "p", "d", "a", "t", "e">>, <<"p", "r", "o", "g", "r", "e", "s", "s">>, <<"m", "i", "l", "e", "s", "t", "o", "n", "e">>, <<"l", "a", "u", "n", "c", "h">>>>

\* the intent mapping of calculateQuestionScore
semanticScore(queryLower, text) ==
  LET textLower == ToLowerCase(text)
  IN  (IF IncludesAny(queryLower, ContractQueryWords) /\ IncludesAny(textLower, ContractTerms)
       THEN 4000 ELSE 0)
      + (IF ~IncludesAny(queryLower, FinancialQueryWords) THEN 0
         ELSE IF IncludesAny(textLower, ExactFinancialData) THEN 10000
         ELSE IF IncludesAny(textLower, FinancialDataPatterns) THEN 8000
         ELSE IF IncludesAny(textLower, FinancialTerms) THEN 3000
         ELSE IF IncludesAny(textLower, ProjectionTerms) THEN 1000
         ELSE 0)
      + (IF IncludesAny(queryLower, ContactQueryWords) /\ IncludesAny(textLower, ContactTerms)
         THEN 6000 ELSE 0)
      + (IF IncludesAny(queryLower, BusinessQueryWords) /\ IncludesAny(textLower, BusinessTerms)
         THEN 3000 ELSE 0)
      + (IF IncludesAny(queryLower, UpdateQueryWords) /\ IncludesAny(textLower, UpdateTerms)
         THEN 3000 ELSE 0)

\* the last index of the run of characters outside a class that starts at i
RunEndExcept(s, i, excluded) ==
  LET stops == {j \in i..Len(s) : s[j] \in excluded}
  IN  IF stops = {} THEN Len(s)
      ELSE (CHOOSE j \in stops : \A k \in stops : j <= k) - 1

\* the positions after a word of the alternation that stands at i
AfterWord(s, i, wordList) ==
  {i + Len(wordList[k]) : k \in {k \in 1..Len(wordList) :
      /\ i + Len(wordList[k]) - 1 <= Len(s)
      /\ ToLowerCase(SubSeq(s, i, i + Len(wordList[k]) - 1)) = wordList[k]}}

\* separators of a class (at least minSep, as many as possible) and then a
\* body of one or more characters outside the excluded ones, from p: the
\* index of the body's last character, or 0
SeparatedBodyEnd(s, p, separators, minSep, excluded) ==
  LET separatorsEnd == ClassRunEnd(s, p, separators)
      lengths == {k \in minSep..(separatorsEnd - p + 1) :
                    p + k <= Len(s) /\ s[p + k] \notin excluded}
  IN  IF lengths = {} THEN 0
      ELSE RunEndExcept(s, p + (CHOOSE k \in lengths : \A l \in lengths : l <= k),
                        excluded)

\* [:\s]*\$?([0-9,]+\.?[0-9]*) from p: the index of its last character, or 0
AmountEnd(s, p) ==
  LET start == SkipOptional(s, ClassRunEnd(s, p, {":", " ", NL}) + 1, {"$"})
      digitsEnd == ClassRunEnd(s, start, Digits \cup {","})
  IN  IF digitsEnd < start THEN 0
      ELSE IF digitsEnd < Len(s) /\ s[digitsEnd + 1] = "."
           THEN ClassRunEnd(s, digitsEnd + 2, Digits)
           ELSE digitsEnd

SentenceEnders == {".", "!", "?"}

\* the largest end any alternative reaches, 0 when none matches
BestEnd(ends) ==
  IF ends \subseteq {0} THEN 0 ELSE CHOOSE e \in ends : \A f \in ends : f <= e

\* answer pattern k matched at i: the index of its last character, or 0
AnswerPatternEnd(k, s, i) ==
  CASE k = 1 ->
         BestEnd({SeparatedBodyEnd(s, p, {" ", NL}, 1, SentenceEnders) :
                    p \in AfterWord(s, i, <<<<"i", "s">>, <<"a", "r", "e">>, <<"w", "a", "s">>, <<"w", "e", "r", "e">>>>)})
    [] k = 2 ->
         BestEnd({SeparatedBodyEnd(s, p, {" ", NL}, 1, SentenceEnders) :
                    p \in AfterWord(s, i, <<<<"t", "h", "e">>, <<"a">>, <<"a", "n">>>>)})
    [] k = 3 ->
         BestEnd({SeparatedBodyEnd(s, q, {" ", NL}, 1, SentenceEnders) :
                    q \in UNION {AfterWord(s, ClassRunEnd(s, p, {" ", NL}) + 1,
                                           <<<<"a", "t">>, <<"i", "n">>, <<"o", "n">>>>) :
                         p \in {p \in AfterWord(s, i, <<<<"l", "o", "c", "a", "t", "e", "d">>, <<"f", "o", "u", "n", "d">>, <<"s", "i", "t", "u", "a", "t", "e", "d">>>>) :
                                  p <= Len(s) /\ IsWhitespace(s[p])}}})
    [] k = 4 ->
         BestEnd({SeparatedBodyEnd(s, p, {":", " ", NL}, 1, SentenceEnders \cup {NL}) :
                    p \in AfterWord(s, i, <<<<"c", "o", "n", "t", "a", "c", "t">>, <<"e", "m", "a", "i", "l">>, <<"p", "h", "o", "n", "e">>, <<"a", "d", "d", "r", "e", "s", "s">>>>)})
    [] k = 5 ->
         BestEnd({AmountEnd(s, p) :
                    p \in AfterWord(s, i, <<<<"a", "m", "o", "u", "n", "t">>, <<"t", "o", "t", "a", "l">>, <<"c", "o", "s", "t">>, <<"p", "r", "i", "c", "e">>>>)})
    [] k = 6 ->
         BestEnd({AmountEnd(s, p) :
                    p \in AfterWord(s, i, <<<<"r", "e", "v", "e", "n", "u", "e">>, <<"p", "r", "o", "f", "i", "t">>, <<"m", "a", "r", "g", "i", "n">>>>)})
    [] OTHER ->
         BestEnd({SeparatedBodyEnd(s, p, {":", " ", NL}, 0, SentenceEnders \cup {NL}) :
                    p \in AfterWord(s, i, <<<<"p", "a", "r", "t", "n", "e", "r", "s", "h", "i", "p">>, <<"a", "g", "r", "e", "e", "m", "e", "n", "t">>, <<"c", "o", "n", "t", "r", "a", "c", "t">>>>)})

\* (text.match(pattern) || []).length for answer pattern k
RECURSIVE CountPatternFrom(_, _, _)
CountPatternFrom(k, s, i) ==
  LET starts == {j \in i..Len(s) : AnswerPatternEnd(k, s, j) # 0}
      first == CHOOSE j \in starts : \A l \in starts : j <= l
  IN  IF starts = {} THEN 0
      ELSE 1 + CountPatternFrom(k, s, AnswerPatternEnd(k, s, first) + 1)

answerPatterns == 7

patternScore(text) ==
  LET RECURSIVE Sum(_)
      Sum(k) == IF k = 0 THEN 0
                ELSE Sum(k - 1) + Min(2000, CountPatternFrom(k, text, 1) * 500)
  IN  Sum(answerPatterns)

\* a question score that is never active
calculateQuestionScore_Inactive(query, text) == 0

calculateQuestionScore(query, text) ==
  IF ~IncludesAny(query, questionWords) THEN 0
  ELSE Min(Scale, semanticScore(ToLowerCase(query), text) + patternScore(text))

\* the threshold 0.05 on the weighted total
similarityThreshold == 5000

\* the record search makes of a document: the document, its weighted total
\* and the four sub-scores
ScoredDocument(query, doc) ==
  LET queryLower == ToLowerCase(query)
      textLower == ToLowerCase(doc.text)
      metadataLower == ToLowerCase(MetadataJson(doc.metadata))
      exact == calculateExactMatchScore(queryLower, textLower)
      keyword == calculateKeywordScore(queryLower, textLower)
      metadata == calculateMetadataScore(queryLower, metadataLower)
      question == calculateQuestionScore(queryLower, textLower)
  IN  [text |-> doc.text, metadata |-> doc.metadata,
       similarity |-> 3 * exact + 2 * keyword + metadata + 4 * question,
       scores |-> [exact |-> exact, keyword |-> keyword, metadata |-> metadata,
                   question |-> question]]

\* sort((a, b) => b.similarity - a.similarity): the sort is stable
RECURSIVE SortBySimilarity(_)
SortBySimilarity(results) ==
  LET RECURSIVE Insert(_, _)
      Insert(sorted, result) ==
        IF sorted = <<>> THEN <<result>>
        ELSE IF sorted[Len(sorted)].similarity >= result.similarity
             THEN Append(sorted, result)
             ELSE Append(Insert(SubSeq(sorted, 1, Len(sorted) - 1), result),
                         sorted[Len(sorted)])
  IN  IF results = <<>> THEN <<>>
      ELSE Insert(SortBySimilarity(SubSeq(results, 1, Len(results) - 1)),
                  results[Len(results)])

\* array.slice(0, limit)
SliceTo(results, limit) ==
  IF limit >= 0 THEN SubSeq(results, 1, Min(limit, Len(results)))
  ELSE SubSeq(results, 1, Max(0, Len(results) + limit))

defaultFileLimit == 10

\* FileBasedDocumentStore.search
FileSearchResults(docs, query, limitArg) ==
  SliceTo(SortBySimilarity(
            SelectSeq([i \in 1..Len(docs) |-> ScoredDocument(query, docs[i])],
                      LAMBDA doc : doc.similarity > similarityThreshold)),
          IF limitArg = NoNumber THEN defaultFileLimit ELSE limitArg[1])

Txt_Highlights == <<"F", "i", "n", "a", "n", "c", "i", "a", "l", " ", "H", "i", "g", "h",
    "l", "i", "g", "h", "t", "s", ".", " ", "R", "e", "v", "e", "n", "u",
    "e", ":", " ", "$", "2", ",", "5", "0", "0", ",", "0", "0", "0">>

Txt_Asked == <<"W", "h", "a", "t", " ", "i", "s", " ", "t", "h", "e", " ", "r", "e",
    "v", "e", "n", "u", "e", "?", " ", "R", "e", "v", "e", "n", "u", "e",
    ":", " ", "$", "2", ",", "5", "0", "0", ",", "0", "0", "0", " ", "w",
    "a", "s", " ", "f", "o", "u", "n", "d", " ", "i", "n", " ", "t", "h",
    "e", " ", "r", "e", "p", "o", "r", "t">>

Txt_Update == <<"T", "e", "a", "m", " ", "u", "p", "d", "a", "t", "e", ":", " ", "l",
    "a", "u", "n", "c", "h", " ", "i", "s", " ", "o", "n", " ", "t", "a",
    "r", "g", "e", "t">>

Txt_Cost == <<"T", "h", "e", " ", "c", "o", "s", "t", " ", "i", "s", " ", "$", "5">>

FileDocuments ==
  {[text |-> text, metadata |-> [filename |-> filename]] :
     text \in {Txt_Revenue, Txt_Highlights, Txt_Asked, Txt_Update, Txt_Cost},
     filename \in {"f1.pdf", "revenue.pdf"}}

MaxFileDocs == 2

Q_plain == <<"r", "e", "v", "e", "n", "u", "e">>

Q_status == <<"w", "h", "a", "t", " ", "i", "s", " ", "t", "h", "e", " ", "s", "t",
    "a", "t", "u", "s">>

\* FileBasedDocumentStore.add: the chunks are appended and the file rewritten
FileAdd ==
  /\ last.op = "none"
  /\ \E doc \in FileDocuments :
       /\ Len(documents) + 1 <= MaxFileDocs
       /\ documents' = Append(documents, doc)
       /\ snapshot' = JsonFile(documents', now)
       /\ ledger' = NewLedger(ledger.ops + 1, documents')
  /\ UNCHANGED <<queryCache, embeddingCache, now, last>>

FileSearch ==
  /\ last.op = "none"
  /\ \E query \in {Q_revenue, Q_plain, Q_status}, limitArg \in {NoNumber, <<1>>, <<0>>} :
       last' = [op |-> "fileSearch", query |-> query, limitArg |-> limitArg,
                results |-> FileSearchResults(documents, query, limitArg)]
  /\ ledger' = [ledger EXCEPT !.ops = @ + 1]
  /\ UNCHANGED <<documents, snapshot, queryCache, embeddingCache, now>>

FileNext == FileAdd \/ FileSearch

SpecFile == Idle /\ [][FileNext]_vars

Str_Figure == <<"$", "2", ",", "5", "0", "0", ",", "0", "0", "0">>

\* the store holds one document, whose text has the revenue line, and the
\* revenue question was asked with a limit of at least one
RevenueAsked ==
  /\ last.op = "fileSearch"
  /\ Len(documents) = 1
  /\ Includes(documents[1].text, Txt_Revenue)
  /\ last.query = Q_revenue
  /\ (last.limitArg = NoNumber \/ last.limitArg[1] >= 1)

\* C20: in a lexical store whose only document has a text containing
\* 'Revenue: $2,500,000', search('What is the revenue?', limit >= 1) returns a
\* non-empty list whose first record contains the dollar figure; the
\* question score of that record is positive and its weighted total is above
\* the 0.05 threshold.
C20_RevenueQuestionFindsFigure ==
  RevenueAsked =>
    /\ Len(last.results) >= 1
    /\ Includes(last.results[1].text, Str_Figure)
    /\ last.results[1].scores.question > 0
    /\ last.results[1].similarity > similarityThreshold

\* the plain revenue line alone: every sub-score but the question score is 0
C20_Witness ==
  /\ RevenueAsked
  /\ documents[1].text = Txt_Revenue
  /\ Len(last.results) = 1
  /\ last.results[1].scores.exact = 0
  /\ last.results[1].scores.keyword = 0
  /\ last.results[1].scores.metadata = 0
  /\ last.results[1].scores.question >= 8000

(***************************************************************************)
(* The search route (POST /api/search).  Every request fetches the API     *)
(* key, builds its own VectorDocumentStore over the snapshot and searches  *)
(* it; the lexical store is a module-level singleton whose documents are   *)
(* an input of the request.                                                *)
(***************************************************************************)
\* search on an instance that was just constructed: both caches are empty
FreshSearchResults(file, query, limitArg, minSimilarity, metadataFilter, embedding, outcome) ==
  LET docs == loadDocuments(file).documents
      limit == IF limitArg = NoNumber THEN DefaultLimit ELSE limitArg[1]
      floor == AdjustedMinSimilarity(minSimilarity, query)
      scored == ScoreDocuments(docs, query, embedding, floor, metadataFilter)
  IN  IF Len(docs) = 0 \/ outcome = "fail" \/ scored.threw THEN <<>>
      ELSE deduplicateByDocument(SortResults(scored.results), limit)

\* new RegExp(query, "g") in calculateExactMatchScore throws for a query that
\* holds "(" when some text includes the query
FileSearchThrows(docs, query) ==
  /\ RegExpThrows(query)
  /\ \E i \in 1..Len(docs) : Includes(ToLowerCase(docs[i].text), ToLowerCase(query))

\* the lexical store's results as the synthesizer reads them: similarity in
\* ten-thousandths
FileResults(docs, query, limitArg) ==
  LET found == FileSearchResults(docs, query, limitArg)
  IN  [i \in 1..Len(found) |->
         [text |-> found[i].text, metadata |-> found[i].metadata,
          similarity |-> found[i].similarity \div 10]]

routeLimit == 10

routeMinSimilarity == 4000

NoAnswer == [answer |-> <<>>, sources |-> <<>>, confidence |-> 0, threw |-> FALSE]

\* NextResponse.json(...): answer, sources and confidence are present only
\* when an answer was generated
Response(status, results, hasAnswer, aiAnswer) ==
  [status |-> status, results |-> results, total |-> Len(results),
   hasAnswer |-> hasAnswer, answer |-> aiAnswer.answer,
   sources |-> aiAnswer.sources, confidence |-> aiAnswer.confidence]

\* the POST handler after its two searches: the fall-back to the lexical
\* store, the answer and the response
PostResponse(query, generateAnswer, vectorResults, fileThrows, fileResults, provider, content) ==
  LET searchResults == IF Len(vectorResults) = 0 THEN fileResults ELSE vectorResults
  IN  IF Len(TrimWs(query)) = 0 THEN Response(400, <<>>, FALSE, NoAnswer)
      ELSE IF Len(vectorResults) = 0 /\ fileThrows
      THEN Response(500, <<>>, FALSE, NoAnswer)
      ELSE IF generateAnswer /\ Len(searchResults) > 0
      THEN Response(200, searchResults, TRUE,
                    generateAnswerFromDocuments(query, searchResults, provider, content))
      ELSE Response(200, searchResults, FALSE, NoAnswer)

FileDoc(text) == [text |-> text, metadata |-> [filename |-> "f1.pdf"]]

\* what the lexical store holds
RouteFileDocs ==
  {<<>>, <<FileDoc(Txt_Update)>>, <<FileDoc(T_abc_def)>>, <<FileDoc(T_paren)>>}

RouteQueries == KnownQueries \cup {<<" ">>}

RouteInit == \E file \in InitFiles : Constructed(file, 1)

\* POST /api/search: the vector search on a fresh instance (skipped when the
\* key fetch fails), the lexical search, then the rest of the handler
Post ==
  /\ ledger.ops = 0
  /\ \E fileDocs \in RouteFileDocs, query \in RouteQueries, generateAnswer \in BOOLEAN,
        keyFetch \in {"ok", "fail"}, embedding \in EmbPool, outcome \in {"ok", "fail"},
        provider \in {<<"ok", Ans_long>>, <<"keyfail", <<>>>>} :
       \E vectorResults \in
            {IF keyFetch = "fail" \/ Len(TrimWs(query)) = 0 THEN <<>>
             ELSE FreshSearchResults(snapshot, query, <<routeLimit>>,
                                     <<routeMinSimilarity>>, NoFilter,
                                     embedding, outcome)},
          fileThrows \in {Len(TrimWs(query)) > 0 /\ FileSearchThrows(fileDocs, query)} :
         \E fileResults \in
              {IF Len(TrimWs(query)) = 0 \/ fileThrows THEN <<>>
               ELSE FileResults(fileDocs, query, <<routeLimit>>)} :
           last' = [op |-> "POST", query |-> query, fileDocuments |-> fileDocs,
                    generateAnswer |-> generateAnswer, keyFetch |-> keyFetch,
                    embeddingOutcome |-> outcome,
                    vectorResults |-> vectorResults,
                    fileResults |-> fileResults,
                    response |-> PostResponse(query, generateAnswer, vectorResults,
                                              fileThrows, fileResults,
                                              provider[1], provider[2])]
  /\ ledger' = [ledger EXCEPT !.ops = @ + 1]
  /\ UNCHANGED <<documents, snapshot, queryCache, embeddingCache, now>>

SpecRoute == RouteInit /\ [][Post]_vars

\* a request for an answer whose vector search and lexical search both
\* found nothing
NothingFound ==
  /\ last.op = "POST"
  /\ Len(TrimWs(last.query)) > 0
  /\ last.generateAnswer
  /\ last.vectorResults = <<>>
  /\ ~FileSearchThrows(last.fileDocuments, last.query)
  /\ last.fileResults = <<>>

\* C21: a search request whose vector search and lexical fallback both yield
\* zero results is answered without an error, and its response carries the
\* 'nothing found' answer with confidence 0.
C21_NothingFoundIsAnswered ==
  NothingFound =>
    /\ last.response.status = 200
    /\ last.response.hasAnswer
    /\ last.response.answer = Str_NoInformation
    /\ last.response.confidence = 0

====
